---- MODULE Spec2Model ----
(***************************************************************************)
(* Model of the run tracker of ghwatch (package watch): two catalogs of    *)
(* tracked workflow runs (active, archived), each a map from run ID to     *)
(* entry plus an explicit order sequence of run IDs.                       *)
(***************************************************************************)
EXTENDS Integers, Sequences, FiniteSets, TLC

\* ---------------------------------------------------------------- bounds
\* Run IDs the fetcher may deliver are 1..NumRuns.
NumRuns == 3
\* The specifications that let the clock run use the run IDs 1..NumFewRuns.
NumFewRuns == 2
\* The clock takes the instants 1..MaxNow.
MaxNow == 2
\* A list of a state file has at most MaxFileLen elements.
MaxFileLen == 2
\* A behaviour has at most MaxImports calls of ImportState.
MaxImports == 1
\* The caller writes at most MaxWrites elements of a value it holds.
MaxWrites == 1
\* The GitHub client of the application answers with the run IDs 1..NumAppRuns.
NumAppRuns == 1
\* A list of runs the GitHub client answers a fetch with has at most MaxFetched runs.
MaxFetched == 1
\* The application has at most MaxInflight commands in flight.
MaxInflight == 1
\* At most MaxFaults operations on the files fail while the application runs.
MaxFaults == 1
\* Where commands overlap, at most MaxOverlap commands and answers are in flight.
MaxOverlap == 2
\* The state file the run list is studied on lists the run IDs 1..NumViewRuns.
NumViewRuns == 3
NumScrollRuns == 5

\* ------------------------------------------------------ program constants
\* githuburl.Kind (iota)
KindUnknown == 0
KindWorkflowRun == 1
KindPullRequest == 2
KindCommit == 3

\* githubclient.RunStatus
RunStatusPending == "pending"
RunStatusSuccess == "success"
RunStatusFailed == "failed"

RunStatuses == {RunStatusPending, RunStatusSuccess, RunStatusFailed}

\* focusArea (iota)
focusRuns == 0
focusInput == 1

\* statusKind (iota)
statusNeutral == 0
statusError == 1
statusSuccess == 2

RunIDs == 1..NumRuns

FewRunIDs == 1..NumFewRuns

\* githubclient.WorkflowRun: the identity and the observable state of a run.
WorkflowRun == [ID : RunIDs, Status : RunStatuses]

\* githuburl.Parsed: the zero value Parsed{} has Kind = KindUnknown.
Parsed == [Kind : {KindUnknown, KindWorkflowRun, KindPullRequest, KindCommit}]

\* The records and sources the fetcher delivers in Spec: a run is pending or
\* has succeeded, and the caller passes Parsed{} as the tracker's tests do.
InputRuns == {run \in WorkflowRun : run.Status \in {RunStatusPending, RunStatusSuccess}}

InputSources == {source \in Parsed : source.Kind = KindUnknown}

\* The zero time.Time.
ZeroTime == 0

VARIABLES
    active,         \* map[int64]*TrackedRun
    archived,       \* map[int64]*TrackedRun
    activeOrder,    \* []int64
    archivedOrder,  \* []int64
    now,            \* the instant time.Now() returns (Spec holds the clock still)
    ret,            \* the call of the last step and what it returned
    upserted,       \* history: the IDs upserted so far, while every call was an
                    \* Upsert of an ID not upserted before
    firstKnown,     \* history: per ID, the first known-kind source an Upsert supplied
    arrays,         \* the backing arrays of the []int64 slices, by address
    orderAt,        \* the slice headers of t.activeOrder and t.archivedOrder
    held,           \* what the caller holds of the last IDs or ExportState call
    imports,        \* the number of ImportState calls of held values so far
    disk,           \* the data directory: the files state.json and state.json.tmp
    saving,         \* where a SaveTracker call stands, and the bytes it marshalled
    saved,          \* history: the tracker as the file at state.json was saved from it
    app,            \* the Model of the terminal application
    inflight        \* the commands the application has issued that have not answered

vars == <<active, archived, activeOrder, archivedOrder, now, ret, upserted, firstKnown,
          arrays, orderAt, held, imports, disk, saving, saved, app, inflight>>

\* The files of the data directory and the application over the tracker.
hostVars == <<disk, saving, saved, app, inflight>>

\* What the caller shares with the tracker, or may share.
shareVars == <<arrays, orderAt, held, imports>>

\* ------------------------------------------------------------ pure helpers

\* removeID that filters nothing.
removeIDNone(items, id) == items

\* removeID: copies every element different from id, in order.
RECURSIVE removeID(_, _)
removeID(items, id) ==
    IF items = <<>> THEN <<>>
    ELSE IF Head(items) = id THEN removeID(Tail(items), id)
    ELSE <<Head(items)>> \o removeID(Tail(items), id)

\* prependUnique without the removeID.
prependDup(items, id) == <<id>> \o items

\* prependUnique that puts id behind what is left.
prependLast(items, id) == removeID(items, id) \o <<id>>

\* prependUnique: removeID, then id in front of what is left.
prependUnique(items, id) == <<id>> \o removeID(items, id)

\* collectRuns that stops at the first ID that has no entry.
RECURSIVE collectRunsStop(_, _)
collectRunsStop(order, lookup) ==
    IF order = <<>> THEN <<>>
    ELSE IF Head(order) \in DOMAIN lookup
         THEN <<lookup[Head(order)]>> \o collectRunsStop(Tail(order), lookup)
         ELSE <<>>

\* collectRuns: the entries of lookup in the order given, skipping an ID
\* that has no entry.
RECURSIVE collectRuns(_, _)
collectRuns(order, lookup) ==
    IF order = <<>> THEN <<>>
    ELSE IF Head(order) \in DOMAIN lookup
         THEN <<lookup[Head(order)]>> \o collectRuns(Tail(order), lookup)
         ELSE collectRuns(Tail(order), lookup)

\* delete that leaves the key in the map.
deleteKeyNot(m, id) == m

\* delete(m, id) of a Go map.
deleteKey(m, id) == [k \in (DOMAIN m) \ {id} |-> m[k]]

\* m[id] = entry of a Go map.
setKey(m, id, entry) == [k \in (DOMAIN m) \cup {id} |-> IF k = id THEN entry ELSE m[k]]

\* statusChanged computed after existing.Run has been overwritten.
statusChangedStale(existing, run) == run.Status # run.Status

\* Upsert, both existing branches: statusChanged.
statusChangedOf(existing, run) == existing.Run.Status # run.Status

\* mergeSource where the last known source wins.
mergeSourceLast(existingSource, source) ==
    IF source.Kind # KindUnknown THEN source ELSE existingSource

\* Upsert, both existing branches: the first known source wins.
mergeSource(existingSource, source) ==
    IF existingSource.Kind = KindUnknown /\ source.Kind # KindUnknown
    THEN source
    ELSE existingSource

\* An update that builds the entry anew, as for a run never seen.
refreshedAnew(existing, run, source) ==
    [Run |-> run, Source |-> mergeSource(existing.Source, source),
     AddedAt |-> now, ArchivedAt |-> existing.ArchivedAt]

\* Upsert, both existing branches: the entry after the update.
refreshed(existing, run, source) ==
    [existing EXCEPT !.Run = run, !.Source = mergeSource(existing.Source, source)]

\* Upsert, last branch: the entry of a run seen for the first time.
newEntry(run, source, t) ==
    [Run |-> run, Source |-> source, AddedAt |-> t, ArchivedAt |-> ZeroTime]

\* ---------------------------------------------------------------- queries

VisibleRuns(showArchived) ==
    IF showArchived THEN collectRuns(archivedOrder, archived)
    ELSE collectRuns(activeOrder, active)

\* IDs that answers with the other catalog's order.
IDsOther(showArchived) == IF showArchived THEN activeOrder ELSE archivedOrder

\* IDs: the order sequence of the chosen catalog (its copy: see Clone).
IDs(showArchived) == IF showArchived THEN archivedOrder ELSE activeOrder

LenActive == Len(activeOrder)

LenArchived == Len(archivedOrder)

\* ------------------------------------------------------------------- state

NoCall == [op |-> "none", id |-> 0, status |-> RunStatusPending,
           newRun |-> FALSE, statusChanged |-> FALSE, ok |-> FALSE]

\* make(map[int64]*TrackedRun)
EmptyMap == [k \in {} |-> k]

\* A nil slice: no backing array.
NilSlice == [arr |-> 0, len |-> 0]

\* The caller holds nothing of the tracker.
NoHeld == [kind |-> "none"]

\* No file of that name in the data directory.
NoFile == [kind |-> "none"]

\* A file that holds a proper prefix of a document (an empty file included), or
\* bytes that are no JSON document at all: json.Unmarshal rejects it.
NotJSON == [kind |-> "not json"]

\* No SaveTracker call is under way.
Idle == [pc |-> "idle"]

\* Nothing is known to be saved at state.json.
NoSave == [known |-> FALSE]

\* statusMessage{} (the instant a message expires at is left to the clock).
NoStatus == [text |-> "", kind |-> statusNeutral]

\* area{}
NoArea == [top |-> 0, height |-> 0]

\* The zero Model, of an application that is not running: the fields of Model
\* but the client, the poll interval, the width, the text input and its
\* history and the spinner; and, of the program around it, its phase, ticks,
\* the refresh ticks scheduled that have not been handled, and faults, the
\* number of file operations that failed.
AppDown ==
    [phase |-> "down", status |-> NoStatus, showArchived |-> FALSE, selectedIndex |-> 0,
     pendingFetch |-> FALSE, refreshing |-> FALSE, faults |-> 0,
     focus |-> focusRuns, bellEnabled |-> FALSE, scrollOffset |-> 0,
     listArea |-> NoArea, inputArea |-> NoArea, ticks |-> 0]

\* NewTracker: two empty maps, two nil order slices; an empty data directory; the
\* application not started.
Init ==
    /\ active = EmptyMap
    /\ archived = EmptyMap
    /\ activeOrder = <<>>
    /\ archivedOrder = <<>>
    /\ now = 1
    /\ ret = NoCall
    /\ upserted = [distinct |-> TRUE, ids |-> <<>>]
    /\ firstKnown = EmptyMap
    /\ arrays = EmptyMap
    /\ orderAt = [active |-> NilSlice, archived |-> NilSlice]
    /\ held = NoHeld
    /\ imports = 0
    /\ disk = [state |-> NoFile, tmp |-> NoFile]
    /\ saving = Idle
    /\ saved = NoSave
    /\ app = AppDown
    /\ inflight = <<>>

\* Upsert's call and its two results.
UpsertRet(run, newRun, statusChanged) ==
    [op |-> "Upsert", id |-> run.ID, status |-> run.Status,
     newRun |-> newRun, statusChanged |-> statusChanged, ok |-> FALSE]

\* Upsert of an active run that also moves it to the front.
UpsertActiveBump(run, source) ==
    /\ run.ID \in DOMAIN active
    /\ LET existing == active[run.ID] IN
       /\ active' = [active EXCEPT ![run.ID] = refreshed(existing, run, source)]
       /\ ret' = UpsertRet(run, FALSE, statusChangedOf(existing, run))
    /\ activeOrder' = prependUnique(activeOrder, run.ID)
    /\ UNCHANGED <<archived, archivedOrder, now>>

\* Upsert, first branch: the run is active.
UpsertActive(run, source) ==
    /\ run.ID \in DOMAIN active
    /\ LET existing == active[run.ID] IN
       /\ active' = [active EXCEPT ![run.ID] = refreshed(existing, run, source)]
       /\ ret' = UpsertRet(run, FALSE, statusChangedOf(existing, run))
    /\ UNCHANGED <<archived, activeOrder, archivedOrder, now>>

\* Upsert of an archived run that leaves its ID in the archived order.
UpsertArchivedKeepOrder(run, source) ==
    /\ run.ID \notin DOMAIN active
    /\ run.ID \in DOMAIN archived
    /\ LET existing == archived[run.ID] IN
       /\ archived' = deleteKey(archived, run.ID)
       /\ active' = setKey(active, run.ID, refreshed(existing, run, source))
       /\ activeOrder' = prependUnique(activeOrder, run.ID)
       /\ ret' = UpsertRet(run, TRUE, statusChangedOf(existing, run))
    /\ UNCHANGED <<archivedOrder, now>>

\* Upsert of an archived run that reports it like a run never seen.
UpsertArchivedAsNew(run, source) ==
    /\ run.ID \notin DOMAIN active
    /\ run.ID \in DOMAIN archived
    /\ LET existing == archived[run.ID] IN
       /\ archived' = deleteKey(archived, run.ID)
       /\ archivedOrder' = removeID(archivedOrder, run.ID)
       /\ active' = setKey(active, run.ID, refreshed(existing, run, source))
       /\ activeOrder' = prependUnique(activeOrder, run.ID)
       /\ ret' = UpsertRet(run, TRUE, FALSE)
    /\ UNCHANGED now

\* Upsert, second branch: the run is archived and comes back to active.
UpsertArchived(run, source) ==
    /\ run.ID \notin DOMAIN active
    /\ run.ID \in DOMAIN archived
    /\ LET existing == archived[run.ID] IN
       /\ archived' = deleteKey(archived, run.ID)
       /\ archivedOrder' = removeID(archivedOrder, run.ID)
       /\ active' = setKey(active, run.ID, refreshed(existing, run, source))
       /\ activeOrder' = prependUnique(activeOrder, run.ID)
       /\ ret' = UpsertRet(run, TRUE, statusChangedOf(existing, run))
    /\ UNCHANGED now

\* Upsert of an unseen run that appends it to the active order.
UpsertNewAppend(run, source) ==
    /\ run.ID \notin DOMAIN active
    /\ run.ID \notin DOMAIN archived
    /\ active' = setKey(active, run.ID, newEntry(run, source, now))
    /\ activeOrder' = removeID(activeOrder, run.ID) \o <<run.ID>>
    /\ ret' = UpsertRet(run, TRUE, FALSE)
    /\ UNCHANGED <<archived, archivedOrder, now>>

\* Upsert, last branch: the run is in neither catalog.
UpsertNew(run, source) ==
    /\ run.ID \notin DOMAIN active
    /\ run.ID \notin DOMAIN archived
    /\ active' = setKey(active, run.ID, newEntry(run, source, now))
    /\ activeOrder' = prependUnique(activeOrder, run.ID)
    /\ ret' = UpsertRet(run, TRUE, FALSE)
    /\ UNCHANGED <<archived, archivedOrder, now>>

\* Upsert: stores or refreshes a workflow run.
Upsert(run, source) ==
    \/ UpsertActive(run, source)
    \/ UpsertArchived(run, source)
    \/ UpsertNew(run, source)

\* Archive's or Unarchive's call and its result.
BoolRet(op, id, ok) ==
    [op |-> op, id |-> id, status |-> RunStatusPending,
     newRun |-> FALSE, statusChanged |-> FALSE, ok |-> ok]

\* Archive that stamps ArchivedAt before it looks the run up in active.
ArchiveStampFirst(id) ==
    IF id \notin DOMAIN active
    THEN /\ ret' = BoolRet("Archive", id, FALSE)
         /\ archived' = [k \in DOMAIN archived |->
                            IF k = id THEN [archived[k] EXCEPT !.ArchivedAt = now]
                            ELSE archived[k]]
         /\ UNCHANGED <<active, activeOrder, archivedOrder, now>>
    ELSE /\ active' = deleteKey(active, id)
         /\ activeOrder' = removeID(activeOrder, id)
         /\ archived' = setKey(archived, id, [active[id] EXCEPT !.ArchivedAt = now])
         /\ archivedOrder' = prependUnique(archivedOrder, id)
         /\ ret' = BoolRet("Archive", id, TRUE)
         /\ UNCHANGED now

\* Archive that stamps ArchivedAt only while it is the zero time.
ArchiveStampOnce(id) ==
    IF id \notin DOMAIN active
    THEN /\ ret' = BoolRet("Archive", id, FALSE)
         /\ UNCHANGED <<active, archived, activeOrder, archivedOrder, now>>
    ELSE /\ active' = deleteKey(active, id)
         /\ activeOrder' = removeID(activeOrder, id)
         /\ archived' = setKey(archived, id,
                            IF active[id].ArchivedAt = ZeroTime
                            THEN [active[id] EXCEPT !.ArchivedAt = now]
                            ELSE active[id])
         /\ archivedOrder' = prependUnique(archivedOrder, id)
         /\ ret' = BoolRet("Archive", id, TRUE)
         /\ UNCHANGED now

\* Archive that appends the run to the archived order.
ArchiveAppend(id) ==
    IF id \notin DOMAIN active
    THEN /\ ret' = BoolRet("Archive", id, FALSE)
         /\ UNCHANGED <<active, archived, activeOrder, archivedOrder, now>>
    ELSE /\ active' = deleteKey(active, id)
         /\ activeOrder' = removeID(activeOrder, id)
         /\ archived' = setKey(archived, id, [active[id] EXCEPT !.ArchivedAt = now])
         /\ archivedOrder' = removeID(archivedOrder, id) \o <<id>>
         /\ ret' = BoolRet("Archive", id, TRUE)
         /\ UNCHANGED now

\* Archive: moves a run out of the active list.
Archive(id) ==
    IF id \notin DOMAIN active
    THEN /\ ret' = BoolRet("Archive", id, FALSE)
         /\ UNCHANGED <<active, archived, activeOrder, archivedOrder, now>>
    ELSE /\ active' = deleteKey(active, id)
         /\ activeOrder' = removeID(activeOrder, id)
         /\ archived' = setKey(archived, id, [active[id] EXCEPT !.ArchivedAt = now])
         /\ archivedOrder' = prependUnique(archivedOrder, id)
         /\ ret' = BoolRet("Archive", id, TRUE)
         /\ UNCHANGED now

\* Unarchive that appends the run to the active order.
UnarchiveAppend(id) ==
    IF id \notin DOMAIN archived
    THEN /\ ret' = BoolRet("Unarchive", id, FALSE)
         /\ UNCHANGED <<active, archived, activeOrder, archivedOrder, now>>
    ELSE /\ archived' = deleteKey(archived, id)
         /\ archivedOrder' = removeID(archivedOrder, id)
         /\ active' = setKey(active, id, archived[id])
         /\ activeOrder' = removeID(activeOrder, id) \o <<id>>
         /\ ret' = BoolRet("Unarchive", id, TRUE)
         /\ UNCHANGED now

\* Unarchive: moves a run back to the active list.
Unarchive(id) ==
    IF id \notin DOMAIN archived
    THEN /\ ret' = BoolRet("Unarchive", id, FALSE)
         /\ UNCHANGED <<active, archived, activeOrder, archivedOrder, now>>
    ELSE /\ archived' = deleteKey(archived, id)
         /\ archivedOrder' = removeID(archivedOrder, id)
         /\ active' = setKey(active, id, archived[id])
         /\ activeOrder' = prependUnique(activeOrder, id)
         /\ ret' = BoolRet("Unarchive", id, TRUE)
         /\ UNCHANGED now

\* ImportState, each of its two loops: t.m[run.Run.ID] = run for every entry
\* given, in order (a later entry of the same ID replaces an earlier one).
RECURSIVE importMap(_, _)
importMap(m, entries) ==
    IF entries = <<>> THEN m
    ELSE importMap(setKey(m, Head(entries).Run.ID, Head(entries)), Tail(entries))

\* ImportState's call: its four arguments (it returns nothing).
ImportRet(activeIn, activeOrderIn, archivedIn, archivedOrderIn) ==
    [op |-> "ImportState", id |-> 0, status |-> RunStatusPending,
     newRun |-> FALSE, statusChanged |-> FALSE, ok |-> FALSE,
     args |-> [active |-> activeIn, activeOrder |-> activeOrderIn,
               archived |-> archivedIn, archivedOrder |-> archivedOrderIn]]

\* ImportState whose second loop ranges over the active entries again.
ImportStateActiveTwice(activeIn, activeOrderIn, archivedIn, archivedOrderIn) ==
    /\ active' = importMap(EmptyMap, activeIn)
    /\ archived' = importMap(EmptyMap, activeIn)
    /\ activeOrder' = activeOrderIn
    /\ archivedOrder' = archivedOrderIn
    /\ ret' = ImportRet(activeIn, activeOrderIn, archivedIn, archivedOrderIn)
    /\ UNCHANGED now

\* ImportState that fills the maps the tracker has instead of new ones.
ImportStateMerge(activeIn, activeOrderIn, archivedIn, archivedOrderIn) ==
    /\ active' = importMap(active, activeIn)
    /\ archived' = importMap(archived, archivedIn)
    /\ activeOrder' = activeOrderIn
    /\ archivedOrder' = archivedOrderIn
    /\ ret' = ImportRet(activeIn, activeOrderIn, archivedIn, archivedOrderIn)
    /\ UNCHANGED now

\* ImportState: both maps rebuilt from the entries given, both orders replaced
\* by the sequences given; nothing is validated and nothing of the former
\* state is read.
ImportState(activeIn, activeOrderIn, archivedIn, archivedOrderIn) ==
    /\ active' = importMap(EmptyMap, activeIn)
    /\ archived' = importMap(EmptyMap, archivedIn)
    /\ activeOrder' = activeOrderIn
    /\ archivedOrder' = archivedOrderIn
    /\ ret' = ImportRet(activeIn, activeOrderIn, archivedIn, archivedOrderIn)
    /\ UNCHANGED now

\* The elements of a sequence.
Range(seq) == {seq[i] : i \in DOMAIN seq}

\* History of a call Upsert(run, source).
NoteUpsert(run, source) ==
    /\ upserted' = IF upserted.distinct /\ run.ID \notin Range(upserted.ids)
                   THEN [upserted EXCEPT !.ids = Append(@, run.ID)]
                   ELSE [distinct |-> FALSE, ids |-> <<>>]
    /\ firstKnown' = IF source.Kind # KindUnknown /\ run.ID \notin DOMAIN firstKnown
                     THEN setKey(firstKnown, run.ID, source)
                     ELSE firstKnown

\* History of a step that is no Upsert.
NoteOther ==
    /\ upserted' = [distinct |-> FALSE, ids |-> <<>>]
    /\ UNCHANGED firstKnown

\* The wall clock advances between two calls (the step is no call).
Tick ==
    /\ now < MaxNow
    /\ now' = now + 1
    /\ ret' = NoCall
    /\ UNCHANGED <<active, archived, activeOrder, archivedOrder, upserted, firstKnown>>
    /\ UNCHANGED <<shareVars, hostVars>>

\* The calls a client makes, with runs, sources and IDs drawn from the sets given,
\* of a client that holds no sequence of the tracker.
Calls(runs, sources, ids) ==
    \/ \E run \in runs, source \in sources :
          Upsert(run, source) /\ NoteUpsert(run, source) /\ UNCHANGED <<shareVars, hostVars>>
    \/ \E id \in ids : Archive(id) /\ NoteOther /\ UNCHANGED <<shareVars, hostVars>>
    \/ \E id \in ids : Unarchive(id) /\ NoteOther /\ UNCHANGED <<shareVars, hostVars>>

Next == Calls(InputRuns, InputSources, RunIDs)

Spec == Init /\ [][Next]_vars

\* The runs of the specifications over FewRunIDs: one status.
FewRuns == {run \in WorkflowRun : run.ID \in FewRunIDs /\ run.Status = RunStatusPending}

\* The runs and sources of SpecSource: one status, every kind of source.
NextSource == Calls(FewRuns, Parsed, FewRunIDs)

SpecSource == Init /\ [][NextSource]_vars

\* The calls over FewRunIDs, with the source Parsed{}, while the clock runs.
NextClock ==
    \/ Calls(FewRuns, InputSources, FewRunIDs)
    \/ Tick

SpecClock == Init /\ [][NextClock]_vars

\* The sequences over S of length 0..n.
SeqsUpTo(S, n) == UNION {[1..k -> S] : k \in 0..n}

\* ---------------------------------------------------------------- state file

stateVersion == 1

\* convertToData: one trackedRunData per entry, field by field; the entries are
\* passed as the values the pointers lead to.
convertToData(runs) ==
    [i \in DOMAIN runs |->
        [run |-> runs[i].Run, source |-> runs[i].Source,
         added_at |-> runs[i].AddedAt, archived_at |-> runs[i].ArchivedAt]]

\* convertFromData that leaves ArchivedAt at the zero time.
convertFromDataNoArchivedAt(data) ==
    [i \in DOMAIN data |->
        [Run |-> data[i].run, Source |-> data[i].source,
         AddedAt |-> data[i].added_at, ArchivedAt |-> ZeroTime]]

\* convertFromData: one new TrackedRun per trackedRunData, field by field.
convertFromData(data) ==
    [i \in DOMAIN data |->
        [Run |-> data[i].run, Source |-> data[i].source,
         AddedAt |-> data[i].added_at, ArchivedAt |-> data[i].archived_at]]

\* stateData, as the JSON document json.MarshalIndent makes of it and
\* json.Unmarshal reads back.
stateData(version, activeData, activeOrderIn, archivedData, archivedOrderIn, savedAt) ==
    [kind |-> "json", Version |-> version, Active |-> activeData,
     ActiveOrder |-> activeOrderIn, Archived |-> archivedData,
     ArchivedOrder |-> archivedOrderIn, SavedAt |-> savedAt]

\* A call of the persistence package: what failed underneath it (fault) and the
\* error it returned ("nil" for none, "running" while it has not returned).
IORet(op, fault, err) ==
    [op |-> op, id |-> 0, status |-> RunStatusPending,
     newRun |-> FALSE, statusChanged |-> FALSE, ok |-> FALSE,
     fault |-> fault, err |-> err]

\* LoadTracker returns err without a call of the tracker.
LoadReturns(fault, err) ==
    /\ ret' = IORet("LoadTracker", fault, err)
    /\ UNCHANGED <<active, archived, activeOrder, archivedOrder, now>>

\* What fails underneath LoadTracker: nothing, statePath, or os.ReadFile with
\* an error other than "no such file".
LoadFaults == {"none", "path", "read"}

\* LoadTracker that does not compare the version.
LoadTrackerAnyVersion(file, fault) ==
    IF fault = "path" THEN LoadReturns(fault, "path")
    ELSE IF fault = "read" THEN LoadReturns(fault, "read")
    ELSE IF file = NoFile THEN LoadReturns(fault, "nil")
    ELSE IF file = NotJSON THEN LoadReturns(fault, "unmarshal")
    ELSE ImportState(convertFromData(file.Active), file.ActiveOrder,
                     convertFromData(file.Archived), file.ArchivedOrder)

\* LoadTracker that takes a missing file for a read error.
LoadTrackerMissingFails(file, fault) ==
    IF fault = "path" THEN LoadReturns(fault, "path")
    ELSE IF fault = "read" \/ file = NoFile THEN LoadReturns(fault, "read")
    ELSE IF file = NotJSON THEN LoadReturns(fault, "unmarshal")
    ELSE IF file.Version # stateVersion THEN LoadReturns(fault, "version")
    ELSE ImportState(convertFromData(file.Active), file.ActiveOrder,
                     convertFromData(file.Archived), file.ArchivedOrder)

\* LoadTracker, with file what is at state.json: the path, the read (a missing
\* file is no error), the parse, the version, and only then ImportState.
LoadTracker(file, fault) ==
    IF fault = "path" THEN LoadReturns(fault, "path")
    ELSE IF fault = "read" THEN LoadReturns(fault, "read")
    ELSE IF file = NoFile THEN LoadReturns(fault, "nil")
    ELSE IF file = NotJSON THEN LoadReturns(fault, "unmarshal")
    ELSE IF file.Version # stateVersion THEN LoadReturns(fault, "version")
    ELSE ImportState(convertFromData(file.Active), file.ActiveOrder,
                     convertFromData(file.Archived), file.ArchivedOrder)

\* The records a state file holds for the runs of FewRuns.
FileEntries ==
    Range(convertToData([e \in {newEntry(run, source, now) :
                                    run \in FewRuns, source \in InputSources} |-> e]))

\* LoadTracker of a readable state file of this version whose four lists need
\* not agree with each other: each has at most MaxFileLen elements.
LoadAnyState ==
    \E activeIn, archivedIn \in SeqsUpTo(FileEntries, MaxFileLen),
       activeOrderIn, archivedOrderIn \in SeqsUpTo(FewRunIDs, MaxFileLen) :
        /\ imports < MaxImports
        /\ LoadTracker(stateData(stateVersion, activeIn, activeOrderIn,
                                 archivedIn, archivedOrderIn, now), "none")
        /\ NoteOther
        /\ imports' = imports + 1
        /\ UNCHANGED <<arrays, orderAt, held, hostVars>>

\* The calls over FewRunIDs and the loading of any state file.
NextImport ==
    \/ Calls(FewRuns, InputSources, FewRunIDs)
    \/ LoadAnyState

SpecImport == Init /\ [][NextImport]_vars

\* ------------------------------------------------- slices and their arrays
\* A []int64 is a header [arr, len] over a backing array; arrays maps the
\* address of each array in use to its elements.  Two slices over one array
\* see each other's writes.

\* The elements a slice shows: the first len elements of its array.
Elems(heap, s) == IF s.len = 0 THEN <<>> ELSE SubSeq(heap[s.arr], 1, s.len)

\* make / append to a literal: the address of a new array, the least one free.
NewArray(heap) ==
    CHOOSE a \in 1..(Cardinality(DOMAIN heap) + 1) :
        a \notin DOMAIN heap /\ \A b \in 1..(a - 1) : b \in DOMAIN heap

\* slices.Clone forgotten: the slice itself.
CloneAlias(heap, s) == [heap |-> heap, slice |-> s]

\* slices.Clone: the elements in a new array (an empty slice has no array).
Clone(heap, s) ==
    IF s.len = 0 THEN [heap |-> heap, slice |-> NilSlice]
    ELSE LET a == NewArray(heap)
         IN  [heap |-> heap @@ (a :> Elems(heap, s)), slice |-> [arr |-> a, len |-> s.len]]

\* removeID on a slice: out := items[:0] and append(out, existing) write the
\* elements kept over the front of the slice's own array; what lies behind
\* them stays as it was.
removeIDInPlace(heap, s, id) ==
    IF s.len = 0 THEN [heap |-> heap, slice |-> s]
    ELSE LET out == removeID(Elems(heap, s), id)
             arr == heap[s.arr]
         IN  [heap |-> [heap EXCEPT ![s.arr] = out \o SubSeq(arr, Len(out) + 1, Len(arr))],
              slice |-> [arr |-> s.arr, len |-> Len(out)]]

\* prependUnique on a slice: removeID in place, then append([]int64{id},
\* items...) builds the result in a new array.
prependUniqueNew(heap, s, id) ==
    LET r == removeIDInPlace(heap, s, id)
        a == NewArray(r.heap)
        items == <<id>> \o Elems(r.heap, r.slice)
    IN  [heap |-> r.heap @@ (a :> items), slice |-> [arr |-> a, len |-> Len(items)]]

\* The slices the caller holds.
HeldSlices(h) ==
    IF h.kind = "ids" THEN <<h.order>>
    ELSE IF h.kind = "export" THEN <<h.activeOrder, h.archivedOrder>>
    ELSE <<>>

\* The elements of a sequence in the order of their first occurrence.
RECURSIVE Firsts(_, _)
Firsts(seq, seen) ==
    IF seq = <<>> THEN <<>>
    ELSE IF Head(seq) \in seen THEN Firsts(Tail(seq), seen)
    ELSE <<Head(seq)>> \o Firsts(Tail(seq), seen \cup {Head(seq)})

\* An address shows only in which slices share an array, and an array only
\* as far as some slice over it reaches.  The memory in use is therefore kept
\* in one form: the arrays numbered in the order in which t.activeOrder,
\* t.archivedOrder and the caller's slices refer to them, each as long as the
\* longest slice over it; unreferenced arrays are garbage, and a slice of
\* length 0 is kept as the nil slice.
Renumbered(heap, act, arch, h) ==
    LET IsLive(sl) == sl.len > 0
        live == SelectSeq(<<act, arch>> \o HeldSlices(h), IsLive)
        addrs == Firsts([i \in DOMAIN live |-> live[i].arr], {})
        Longest(a) ==
            LET lens == {live[i].len : i \in {j \in DOMAIN live : live[j].arr = a}}
            IN  CHOOSE m \in lens : \A l \in lens : l <= m
        New(sl) ==
            IF sl.len = 0 THEN NilSlice
            ELSE [arr |-> CHOOSE i \in DOMAIN addrs : addrs[i] = sl.arr, len |-> sl.len]
    IN  [heap |-> [i \in DOMAIN addrs |-> SubSeq(heap[addrs[i]], 1, Longest(addrs[i]))],
         orderAt |-> [active |-> New(act), archived |-> New(arch)],
         held |-> IF h.kind = "ids" THEN [h EXCEPT !.order = New(@)]
                  ELSE IF h.kind = "export"
                  THEN [h EXCEPT !.activeOrder = New(@), !.archivedOrder = New(@)]
                  ELSE h]

\* The memory, the tracker's two slices and what the caller holds after a step.
Store(heap, act, arch, h) ==
    LET n == Renumbered(heap, act, arch, h)
    IN  /\ arrays' = n.heap
        /\ orderAt' = n.orderAt
        /\ held' = n.held

\* Upsert's assignments to t.activeOrder and t.archivedOrder.
UpsertOrders(id) ==
    IF id \in DOMAIN active
    THEN [heap |-> arrays, active |-> orderAt.active, archived |-> orderAt.archived]
    ELSE IF id \in DOMAIN archived
    THEN LET r == removeIDInPlace(arrays, orderAt.archived, id)
             p == prependUniqueNew(r.heap, orderAt.active, id)
         IN  [heap |-> p.heap, active |-> p.slice, archived |-> r.slice]
    ELSE LET p == prependUniqueNew(arrays, orderAt.active, id)
         IN  [heap |-> p.heap, active |-> p.slice, archived |-> orderAt.archived]

\* Archive's assignments to t.activeOrder and t.archivedOrder.
ArchiveOrders(id) ==
    IF id \notin DOMAIN active
    THEN [heap |-> arrays, active |-> orderAt.active, archived |-> orderAt.archived]
    ELSE LET r == removeIDInPlace(arrays, orderAt.active, id)
             p == prependUniqueNew(r.heap, orderAt.archived, id)
         IN  [heap |-> p.heap, active |-> r.slice, archived |-> p.slice]

\* Unarchive's assignments to t.activeOrder and t.archivedOrder.
UnarchiveOrders(id) ==
    IF id \notin DOMAIN archived
    THEN [heap |-> arrays, active |-> orderAt.active, archived |-> orderAt.archived]
    ELSE LET r == removeIDInPlace(arrays, orderAt.archived, id)
             p == prependUniqueNew(r.heap, orderAt.active, id)
         IN  [heap |-> p.heap, active |-> p.slice, archived |-> r.slice]

\* The tracker's two slices become those of o.
SetOrders(o) == Store(o.heap, o.active, o.archived, held)

\* The calls of a client that holds sequences of the tracker.
SharedCalls(runs, sources, ids) ==
    \/ \E run \in runs, source \in sources :
          /\ Upsert(run, source) /\ NoteUpsert(run, source)
          /\ SetOrders(UpsertOrders(run.ID)) /\ UNCHANGED <<imports, hostVars>>
    \/ \E id \in ids :
          /\ Archive(id) /\ NoteOther
          /\ SetOrders(ArchiveOrders(id)) /\ UNCHANGED <<imports, hostVars>>
    \/ \E id \in ids :
          /\ Unarchive(id) /\ NoteOther
          /\ SetOrders(UnarchiveOrders(id)) /\ UNCHANGED <<imports, hostVars>>

\* A call of IDs: the caller holds the clone returned.
CallIDs(showArchived) ==
    LET c == Clone(arrays, IF showArchived THEN orderAt.archived ELSE orderAt.active)
    IN  /\ Store(c.heap, orderAt.active, orderAt.archived,
                  [kind |-> "ids", writes |-> 0, order |-> c.slice])
        /\ ret' = [NoCall EXCEPT !.op = "IDs"]
        /\ NoteOther
        /\ UNCHANGED <<active, archived, activeOrder, archivedOrder, now, imports, hostVars>>

\* The sequences that list every element of S once: the orders in which a
\* range over a Go map may visit its keys.
Listings(S) == {seq \in [1..Cardinality(S) -> S] : Range(seq) = S}

\* ExportState appending a copy of each entry.
exportedCopies(lookup, listing) == [i \in DOMAIN listing |-> [val |-> lookup[listing[i]]]]

\* ExportState, each of its two loops: append(copy, run) for every run of the
\* map, in the order the range visits the keys.  run is the pointer the map
\* holds; the model names a pointer by the key of its entry (a tracked ID has
\* one entry, and ImportState of a held value keeps every entry the value
\* points to).
exported(lookup, listing) == [i \in DOMAIN listing |-> [ptr |-> listing[i]]]

\* A call of ExportState: the caller holds the four values returned.
ExportState ==
    \E activeOut \in Listings(DOMAIN active), archivedOut \in Listings(DOMAIN archived) :
        LET a == Clone(arrays, orderAt.active)
            b == Clone(a.heap, orderAt.archived)
        IN  /\ Store(b.heap, orderAt.active, orderAt.archived,
                      [kind |-> "export", writes |-> 0, given |-> "no",
                       active |-> exported(active, activeOut), activeOrder |-> a.slice,
                       archived |-> exported(archived, archivedOut),
                       archivedOrder |-> b.slice])
            /\ ret' = [NoCall EXCEPT !.op = "ExportState"]
            /\ NoteOther
            /\ UNCHANGED <<active, archived, activeOrder, archivedOrder, now, imports, hostVars>>

\* The entry an element of a held entry list stands for: the tracker's entry
\* behind a pointer.
Deref(e) ==
    IF "ptr" \in DOMAIN e
    THEN IF e.ptr \in DOMAIN active THEN active[e.ptr] ELSE archived[e.ptr]
    ELSE e.val

\* A call of ImportState with the four values the caller holds (as they are
\* by now); held.given records whether ExportState had just returned them.
ImportHeld ==
    /\ held.kind = "export"
    /\ imports < MaxImports
    /\ LET a == Clone(arrays, held.activeOrder)
           b == Clone(a.heap, held.archivedOrder)
       IN  /\ ImportState([i \in DOMAIN held.active |-> Deref(held.active[i])],
                          Elems(arrays, held.activeOrder),
                          [i \in DOMAIN held.archived |-> Deref(held.archived[i])],
                          Elems(arrays, held.archivedOrder))
           /\ Store(b.heap, a.slice, b.slice,
                    [held EXCEPT !.given = IF ret.op = "ExportState" THEN "at once" ELSE "later"])
    /\ imports' = imports + 1
    /\ NoteOther
    /\ UNCHANGED hostVars

\* The caller writes an element of a sequence it holds.
WriteOrder ==
    \E s \in Range(HeldSlices(held)) : \E i \in 1..s.len, v \in FewRunIDs :
        /\ held.writes < MaxWrites
        /\ arrays[s.arr][i] # v
        /\ arrays' = [arrays EXCEPT ![s.arr][i] = v]
        /\ activeOrder' = Elems(arrays', orderAt.active)
        /\ archivedOrder' = Elems(arrays', orderAt.archived)
        /\ ret' = [NoCall EXCEPT !.op = "write"]
        /\ held' = [held EXCEPT !.writes = @ + 1]
        /\ NoteOther
        /\ UNCHANGED <<active, archived, now, orderAt, imports, hostVars>>

\* The caller sets AddedAt of an entry it holds to an earlier instant, as
\* TestTimestampPreservation does (active[0].AddedAt = addedAt).
WriteEntry ==
    /\ held.kind = "export"
    /\ held.writes < MaxWrites
    /\ \E list \in {"active", "archived"} : \E i \in DOMAIN held[list] :
          LET e == held[list][i] IN
          /\ Deref(e).AddedAt # ZeroTime
          /\ IF "ptr" \in DOMAIN e
             THEN /\ active' = IF e.ptr \in DOMAIN active
                               THEN [active EXCEPT ![e.ptr].AddedAt = ZeroTime]
                               ELSE active
                  /\ archived' = IF e.ptr \in DOMAIN active
                                 THEN archived
                                 ELSE [archived EXCEPT ![e.ptr].AddedAt = ZeroTime]
                  /\ held' = [held EXCEPT !.writes = @ + 1]
             ELSE /\ UNCHANGED <<active, archived>>
                  /\ held' = [held EXCEPT !.writes = @ + 1,
                                          ![list][i].val.AddedAt = ZeroTime]
          /\ ret' = [NoCall EXCEPT !.op = "write entry", !.id = Deref(e).Run.ID]
    /\ NoteOther
    /\ UNCHANGED <<activeOrder, archivedOrder, now, arrays, orderAt, imports, hostVars>>

\* The calls over FewRunIDs of a client that keeps what ExportState returns,
\* writes to its entries and hands it to ImportState.
NextEntries ==
    \/ SharedCalls(FewRuns, InputSources, FewRunIDs)
    \/ ExportState
    \/ ImportHeld
    \/ WriteEntry

SpecEntries == Init /\ [][NextEntries]_vars

\* The calls over FewRunIDs of a client that keeps what IDs and ExportState
\* return, writes to it and hands it to ImportState.
NextShare ==
    \/ SharedCalls(FewRuns, InputSources, FewRunIDs)
    \/ \E showArchived \in BOOLEAN : CallIDs(showArchived)
    \/ ExportState
    \/ ImportHeld
    \/ WriteOrder

SpecShare == Init /\ [][NextShare]_vars

\* -------------------------------------------------------------- persistence

\* The tracker as a value: its four fields.
TrackerValue ==
    [active |-> active, archived |-> archived,
     activeOrder |-> activeOrder, archivedOrder |-> archivedOrder]

\* The stateData SaveTracker marshals of the tracker t: ExportState lists each
\* map in the order its range visits the keys, convertToData reads every entry
\* at once.
savedData(t, activeOut, archivedOut) ==
    stateData(stateVersion,
              convertToData([i \in DOMAIN activeOut |-> t.active[activeOut[i]]]),
              t.activeOrder,
              convertToData([i \in DOMAIN archivedOut |-> t.archived[archivedOut[i]]]),
              t.archivedOrder,
              now)

\* os.WriteFile, first half: the file is created or truncated.
opened(d, name) == [d EXCEPT ![name] = NotJSON]

\* os.WriteFile, second half: every byte is in the file.
written(d, name, data) == [d EXCEPT ![name] = data]

\* os.Rename(tmpPath, path): state.json is what state.json.tmp was, in one step.
renamed(d) == [state |-> d.tmp, tmp |-> NoFile]

\* os.Remove(tmpPath)
removed(d) == [d EXCEPT !.tmp = NoFile]

\* The tracker t a SaveTracker call that has put its file in place was made on.
SavedNow(t) ==
    [known |-> TRUE, active |-> t.active, archived |-> t.archived,
     activeOrder |-> t.activeOrder, archivedOrder |-> t.archivedOrder]

\* A step of the persistence package leaves the tracker and the clock alone.
TrackerKept ==
    /\ UNCHANGED <<active, archived, activeOrder, archivedOrder, now>>
    /\ NoteOther
    /\ UNCHANGED <<shareVars, app, inflight>>

\* SaveTracker up to os.WriteFile: ExportState, statePath (which may fail),
\* convertToData and json.MarshalIndent.
SaveBegin(fault) ==
    /\ saving = Idle
    /\ IF fault = "path"
       THEN /\ ret' = IORet("SaveTracker", fault, "path")
            /\ UNCHANGED <<saving, disk, saved>>
       ELSE \E activeOut \in Listings(DOMAIN active),
               archivedOut \in Listings(DOMAIN archived) :
                /\ saving' = [pc |-> "open",
                              data |-> savedData(TrackerValue, activeOut, archivedOut)]
                /\ ret' = IORet("SaveTracker", fault, "running")
                /\ UNCHANGED <<disk, saved>>
    /\ TrackerKept

\* os.WriteFile that opens state.json itself.
SaveOpenInPlace(fault) ==
    /\ saving.pc = "open"
    /\ IF fault = "open"
       THEN /\ ret' = IORet("SaveTracker", fault, "write")
            /\ saving' = Idle
            /\ UNCHANGED <<disk, saved>>
       ELSE /\ disk' = opened(disk, "state")
            /\ saving' = [saving EXCEPT !.pc = "write"]
            /\ ret' = IORet("SaveTracker", fault, "running")
            /\ UNCHANGED saved
    /\ TrackerKept

\* SaveTracker, os.WriteFile(tmpPath, ...) opening the file: it fails, and
\* SaveTracker returns the error, or state.json.tmp is there and empty.
SaveOpen(fault) ==
    /\ saving.pc = "open"
    /\ IF fault = "open"
       THEN /\ ret' = IORet("SaveTracker", fault, "write")
            /\ saving' = Idle
            /\ UNCHANGED <<disk, saved>>
       ELSE /\ disk' = opened(disk, "tmp")
            /\ saving' = [saving EXCEPT !.pc = "write"]
            /\ ret' = IORet("SaveTracker", fault, "running")
            /\ UNCHANGED saved
    /\ TrackerKept

\* SaveTracker, os.WriteFile(tmpPath, ...) writing: it fails part way, and
\* SaveTracker returns the error leaving the file, or every byte is written.
SaveWrite(fault) ==
    /\ saving.pc = "write"
    /\ IF fault = "write"
       THEN /\ ret' = IORet("SaveTracker", fault, "write")
            /\ saving' = Idle
            /\ UNCHANGED <<disk, saved>>
       ELSE /\ disk' = written(disk, "tmp", saving.data)
            /\ saving' = [saving EXCEPT !.pc = "rename"]
            /\ ret' = IORet("SaveTracker", fault, "running")
            /\ UNCHANGED saved
    /\ TrackerKept

\* SaveTracker, os.Rename(tmpPath, path): it puts the file in place and
\* SaveTracker returns nil, or it fails, os.Remove(tmpPath) is tried (its
\* error is dropped) and SaveTracker returns the error of the rename.
SaveRename(fault) ==
    /\ saving.pc = "rename"
    /\ IF fault = "rename"
       THEN /\ disk' = removed(disk)
            /\ ret' = IORet("SaveTracker", fault, "rename")
            /\ UNCHANGED saved
       ELSE IF fault = "remove"
       THEN /\ ret' = IORet("SaveTracker", fault, "rename")
            /\ UNCHANGED <<disk, saved>>
       ELSE /\ disk' = renamed(disk)
            /\ ret' = IORet("SaveTracker", fault, "nil")
            /\ saved' = SavedNow(TrackerValue)
    /\ saving' = Idle
    /\ TrackerKept

\* A call of LoadTracker on the tracker, between two other calls.
LoadFromDisk(fault) ==
    /\ saving = Idle
    /\ LoadTracker(disk.state, fault)
    /\ NoteOther
    /\ UNCHANGED <<shareVars, hostVars>>

\* The process dies wherever it stands; the next one starts with NewTracker().
\* The files stay as they are.
Restart ==
    /\ active' = EmptyMap
    /\ archived' = EmptyMap
    /\ activeOrder' = <<>>
    /\ archivedOrder' = <<>>
    /\ saving' = Idle
    /\ ret' = IORet("restart", "none", "nil")
    /\ NoteOther
    /\ UNCHANGED <<now, shareVars, disk, saved, app, inflight>>

\* What something other than this program leaves at state.json: nothing, bytes
\* that are no JSON, "{}", or a document of the next version.
ForeignFiles ==
    {NoFile, NotJSON,
     stateData(0, <<>>, <<>>, <<>>, <<>>, ZeroTime),
     stateData(stateVersion + 1,
               convertToData([i \in {1} |->
                   newEntry([ID |-> 1, Status |-> RunStatusPending], [Kind |-> KindUnknown], now)]),
               <<1>>, <<>>, <<>>, now)}

\* Something other than this program replaces state.json.
Foreign ==
    \E file \in ForeignFiles :
        /\ disk' = [disk EXCEPT !.state = file]
        /\ saved' = NoSave
        /\ ret' = IORet("foreign", "none", "nil")
        /\ UNCHANGED <<saving>>
        /\ TrackerKept

\* The tracker's calls, SaveTracker step by step, LoadTracker, the faults of
\* the file system, a process that dies at any step, and foreign state files.
NextDisk ==
    \/ saving = Idle /\ Calls(FewRuns, InputSources, FewRunIDs)
    \/ \E fault \in {"none", "path"} : SaveBegin(fault)
    \/ \E fault \in {"none", "open"} : SaveOpen(fault)
    \/ \E fault \in {"none", "write"} : SaveWrite(fault)
    \/ \E fault \in {"none", "rename", "remove"} : SaveRename(fault)
    \/ \E fault \in LoadFaults : LoadFromDisk(fault)
    \/ Restart
    \/ Foreign

SpecDisk == Init /\ [][NextDisk]_vars

\* -------------------------------------------------------------- application

\* setStatus: the empty text clears the status line.
setStatus(text, kind) == IF text = "" THEN NoStatus ELSE [text |-> text, kind |-> kind]

\* maybeExpireStatus: expired says whether time.Now() is after status.expires.
maybeExpireStatus(status, expired) ==
    IF status.text = "" THEN status
    ELSE IF expired THEN NoStatus ELSE status

\* Upsert on the tracker t: the tracker after the call and its two results.
upsertOf(t, run, source) ==
    IF run.ID \in DOMAIN t.active
    THEN LET existing == t.active[run.ID] IN
         [t |-> [t EXCEPT !.active = [@ EXCEPT ![run.ID] = refreshed(existing, run, source)]],
          isNew |-> FALSE, changed |-> statusChangedOf(existing, run)]
    ELSE IF run.ID \in DOMAIN t.archived
    THEN LET existing == t.archived[run.ID] IN
         [t |-> [active |-> setKey(t.active, run.ID, refreshed(existing, run, source)),
                 archived |-> deleteKey(t.archived, run.ID),
                 activeOrder |-> prependUnique(t.activeOrder, run.ID),
                 archivedOrder |-> removeID(t.archivedOrder, run.ID)],
          isNew |-> TRUE, changed |-> statusChangedOf(existing, run)]
    ELSE [t |-> [t EXCEPT !.active = setKey(@, run.ID, newEntry(run, source, now)),
                          !.activeOrder = prependUnique(@, run.ID)],
          isNew |-> TRUE, changed |-> FALSE]

\* Archive on the tracker t: the tracker after the call and its result.
archiveOf(t, id) ==
    IF id \notin DOMAIN t.active
    THEN [t |-> t, ok |-> FALSE]
    ELSE [t |-> [active |-> deleteKey(t.active, id),
                 activeOrder |-> removeID(t.activeOrder, id),
                 archived |-> setKey(t.archived, id, [t.active[id] EXCEPT !.ArchivedAt = now]),
                 archivedOrder |-> prependUnique(t.archivedOrder, id)],
          ok |-> TRUE]

\* Unarchive on the tracker t: the tracker after the call and its result.
unarchiveOf(t, id) ==
    IF id \notin DOMAIN t.archived
    THEN [t |-> t, ok |-> FALSE]
    ELSE [t |-> [archived |-> deleteKey(t.archived, id),
                 archivedOrder |-> removeID(t.archivedOrder, id),
                 active |-> setKey(t.active, id, t.archived[id]),
                 activeOrder |-> prependUnique(t.activeOrder, id)],
          ok |-> TRUE]

\* VisibleRuns on the tracker t.
visibleRunsOf(t, showArchived) ==
    IF showArchived THEN collectRuns(t.archivedOrder, t.archived)
    ELSE collectRuns(t.activeOrder, t.active)

\* No command: the message handled is not the answer of one.
NoCmd == [kind |-> "none"]

\* What a handler of the application works on: the tracker, the files, the
\* Model, the commands in flight, and, of the handler's own run, the command
\* whose answer it handles, the IDs it has passed to Upsert, the number of its
\* SaveTracker calls, of every absorbRuns call what its Upserts reported as
\* statusChanged and whether it returned the bell, and the number of bells
\* in the command the handler returns.
Machine ==
    [t |-> TrackerValue, disk |-> disk, saved |-> saved, app |-> app, cmds |-> inflight,
     cmd |-> NoCmd, upserts |-> <<>>, saves |-> 0, batches |-> <<>>, rings |-> 0]

\* The IDs of S in the order a range over a map visits them.
listed(order, S) == SelectSeq(order, LAMBDA id : id \in S)

\* What fails underneath SaveTracker: nothing, statePath, os.WriteFile before
\* or after it has created the file, os.Rename, or os.Rename and os.Remove.
SaveFaults == {"none", "path", "open", "write", "rename", "remove"}

\* A whole call of SaveTracker(m.tracker) that nothing interrupts.
saveTracker(m, fault, order) ==
    LET data == savedData(m.t, listed(order, DOMAIN m.t.active),
                          listed(order, DOMAIN m.t.archived))
        n == [m EXCEPT !.saves = @ + 1,
                       !.app.faults = IF fault = "none" THEN @ ELSE @ + 1]
        tmp == written(opened(m.disk, "tmp"), "tmp", data)
    IN  IF fault \in {"path", "open"} THEN n
        ELSE IF fault = "write" THEN [n EXCEPT !.disk = opened(m.disk, "tmp")]
        ELSE IF fault = "rename" THEN [n EXCEPT !.disk = removed(tmp)]
        ELSE IF fault = "remove" THEN [n EXCEPT !.disk = tmp]
        ELSE [n EXCEPT !.disk = renamed(tmp), !.saved = SavedNow(m.t)]

\* absorbRuns, its loop: Upsert of every run, in order; added says whether
\* one of them was new, shouldRing whether one of them had changed, reports
\* lists what each Upsert returned as statusChanged.
RECURSIVE upsertEach(_, _, _, _, _, _)
upsertEach(m, added, shouldRing, reports, runs, source) ==
    IF runs = <<>>
    THEN [m |-> m, added |-> added, shouldRing |-> shouldRing, reports |-> reports]
    ELSE LET u == upsertOf(m.t, Head(runs), source) IN
         upsertEach([m EXCEPT !.t = u.t, !.upserts = Append(@, Head(runs).ID)],
                    added \/ u.isNew, shouldRing \/ u.changed, Append(reports, u.changed),
                    Tail(runs), source)

\* The handler m after an absorbRuns call whose Upserts reported reports and
\* that returned the bell command (rang) or nil.
returned(m, reports, rang) ==
    [m EXCEPT !.batches = Append(@, [reports |-> reports, rang |-> rang]),
              !.rings = IF rang THEN @ + 1 ELSE @]

\* absorbRuns that rings for a new run as for a changed one.
absorbRunsRingsForNew(m, runs, source, fault, order) ==
    IF Len(runs) = 0
    THEN returned([m EXCEPT !.app.status =
                      setStatus(IF source.Kind # KindUnknown
                                THEN "No workflow runs found for source"
                                ELSE "No workflow runs found", statusNeutral)],
                  <<>>, FALSE)
    ELSE LET u == upsertEach(m, FALSE, FALSE, <<>>, runs, source)
             n == IF u.added
                  THEN [saveTracker([u.m EXCEPT !.app.selectedIndex = 0,
                                                !.app.scrollOffset = 0], fault, order)
                           EXCEPT !.app.status = setStatus("Watching runs", statusSuccess)]
                  ELSE u.m
         IN  returned(n, u.reports, (u.shouldRing \/ u.added) /\ m.app.bellEnabled)

\* absorbRuns
absorbRuns(m, runs, source, fault, order) ==
    IF Len(runs) = 0
    THEN returned([m EXCEPT !.app.status =
                      setStatus(IF source.Kind # KindUnknown
                                THEN "No workflow runs found for source"
                                ELSE "No workflow runs found", statusNeutral)],
                  <<>>, FALSE)
    ELSE LET u == upsertEach(m, FALSE, FALSE, <<>>, runs, source)
             n == IF u.added
                  THEN [saveTracker([u.m EXCEPT !.app.selectedIndex = 0,
                                                !.app.scrollOffset = 0], fault, order)
                           EXCEPT !.app.status = setStatus("Watching runs", statusSuccess)]
                  ELSE u.m
         IN  returned(n, u.reports, u.shouldRing /\ m.app.bellEnabled)

\* The sources of the entries given that are pull requests.
prSourcesOf(runs) ==
    {runs[i].Source : i \in {j \in DOMAIN runs : runs[j].Source.Kind = KindPullRequest}}

\* scheduleRefresh: one more tick is scheduled (New makes pollInterval
\* positive, so the command is never nil).
scheduleRefresh(m) == [m EXCEPT !.app.ticks = @ + 1]

\* The command refreshCmd returns: it holds the IDs of the active runs, in
\* order, and the pull requests they came from.  auto says whether it is the
\* periodic refresh; passed lists the runs for which the answer of a command
\* issued after this one has been handled already.
refreshOf(activeRuns, auto) ==
    [kind |-> "refresh", auto |-> auto, passed |-> {},
     ids |-> [i \in DOMAIN activeRuns |-> activeRuns[i].Run.ID],
     prs |-> prSourcesOf(activeRuns)]

\* refreshCmd: no command without an active run; else the command (every run
\* is taken to have a repository name that splits).
refreshCmd(m, auto) ==
    LET activeRuns == visibleRunsOf(m.t, FALSE) IN
    IF Len(activeRuns) = 0
    THEN IF auto THEN [m EXCEPT !.app.refreshing = FALSE] ELSE m
    ELSE [m EXCEPT !.app.refreshing = IF auto THEN TRUE ELSE @,
                   !.cmds = Append(@, refreshOf(activeRuns, auto))]

\* dataRows: the rows of the list area below its header, at least one.
dataRows(m) == IF m.app.listArea.height - 1 < 1 THEN 1 ELSE m.app.listArea.height - 1

\* ensureSelectionBounds: moves the scroll window over the selection and
\* keeps it within the list shown; selectedIndex is left as it is.
ensureSelectionBounds(m) ==
    LET rows == dataRows(m)
        sel == m.app.selectedIndex
        s1 == IF sel < m.app.scrollOffset THEN sel ELSE m.app.scrollOffset
        s2 == IF sel >= s1 + rows THEN sel - rows + 1 ELSE s1
        s3 == IF s2 < 0 THEN 0 ELSE s2
        len == Len(visibleRunsOf(m.t, m.app.showArchived))
        maxScroll == IF len - rows < 0 THEN 0 ELSE len - rows
    IN  [m EXCEPT !.app.scrollOffset = IF s3 > maxScroll THEN maxScroll ELSE s3]

\* moveSelection
moveSelection(m, delta) ==
    LET len == Len(visibleRunsOf(m.t, m.app.showArchived))
        moved == m.app.selectedIndex + delta
    IN  IF len = 0 THEN [m EXCEPT !.app.selectedIndex = 0, !.app.scrollOffset = 0]
        ELSE ensureSelectionBounds(
                 [m EXCEPT !.app.selectedIndex =
                               IF moved < 0 THEN 0 ELSE IF moved >= len THEN len - 1 ELSE moved])

\* selectedRun: no run when the list shown is empty; else selectedIndex is
\* brought into the list and the run at it is the one.
selectedRun(m) ==
    LET runs == visibleRunsOf(m.t, m.app.showArchived) IN
    IF Len(runs) = 0 THEN [m |-> m, found |-> FALSE, id |-> 0]
    ELSE LET i == IF m.app.selectedIndex < 0 THEN 0
                  ELSE IF m.app.selectedIndex >= Len(runs) THEN Len(runs) - 1
                  ELSE m.app.selectedIndex
         IN  [m |-> [m EXCEPT !.app.selectedIndex = i], found |-> TRUE, id |-> runs[i + 1].Run.ID]

\* archiveSelected without its call of SaveTracker.
archiveSelectedNoSave(m, fault, order) ==
    LET sel == selectedRun(m) IN
    IF ~sel.found THEN sel.m
    ELSE [ensureSelectionBounds([sel.m EXCEPT !.t = archiveOf(sel.m.t, sel.id).t])
             EXCEPT !.app.status = setStatus("Archived", statusNeutral)]

\* archiveSelected
archiveSelected(m, fault, order) ==
    LET sel == selectedRun(m) IN
    IF ~sel.found THEN sel.m
    ELSE [saveTracker(ensureSelectionBounds([sel.m EXCEPT !.t = archiveOf(sel.m.t, sel.id).t]),
                      fault, order)
             EXCEPT !.app.status = setStatus("Archived", statusNeutral)]

\* unarchiveSelected
unarchiveSelected(m, fault, order) ==
    LET sel == selectedRun(m) IN
    IF ~sel.found THEN sel.m
    ELSE LET u == unarchiveOf(sel.m.t, sel.id) IN
         IF u.ok
         THEN refreshCmd([saveTracker([sel.m EXCEPT !.t = u.t, !.app.showArchived = FALSE],
                                      fault, order)
                             EXCEPT !.app.status = setStatus("Restored", statusSuccess)],
                         FALSE)
         ELSE [sel.m EXCEPT !.t = u.t]

\* openSelected: the command that opens the URL of the run selected.
openSelected(m) ==
    LET sel == selectedRun(m) IN
    IF ~sel.found THEN sel.m
    ELSE [sel.m EXCEPT !.app.status = setStatus("Opening", statusNeutral),
                       !.cmds = Append(@, [kind |-> "open", passed |-> {}])]

\* setFocus
setFocus(m, area) == [m EXCEPT !.app.focus = area]

\* toggleFocus
toggleFocus(m) == setFocus(m, IF m.app.focus = focusRuns THEN focusInput ELSE focusRuns)

\* The text in the input: none, one githuburl.Parse rejects, or a URL it
\* parses to parsed.
NoText == [text |-> "none"]
BadText == [text |-> "bad"]
URLs == {[text |-> "url", parsed |-> source] : source \in Parsed}

\* submitURL, with url the text in the input.
submitURL(m, url) ==
    IF url = NoText THEN [m EXCEPT !.app.status = setStatus("Enter a URL", statusNeutral)]
    ELSE IF url = BadText THEN [m EXCEPT !.app.status = setStatus("parse error", statusError)]
    ELSE [m EXCEPT !.app.pendingFetch = TRUE,
                   !.app.status = setStatus("Watching source", statusNeutral),
                   !.cmds = Append(@, [kind |-> "fetch", passed |-> {}, source |-> url.parsed])]

\* The keys handleKey tells apart: ctrl+d stands for ctrl+c too, tab for
\* shift+tab, and in the run list j for down, k for up, pgdown for ctrl+f,
\* pgup for ctrl+b, g for home, G for end, o for enter; x is any other key.
Keys ==
    {"q", "ctrl+d", "tab", "esc", "enter", "up", "down", "j", "k", "pgdown", "pgup",
     "g", "G", "o", "a", "A", "b", "x"}

\* handleKey, below its quit keys: the keys of the run list.
handleRunsKey(m, key, in) ==
    IF key \in {"j", "down"} THEN moveSelection(m, 1)
    ELSE IF key \in {"k", "up"} THEN moveSelection(m, -1)
    ELSE IF key = "pgdown" THEN moveSelection(m, dataRows(m))
    ELSE IF key = "pgup" THEN moveSelection(m, -dataRows(m))
    ELSE IF key = "g" THEN [m EXCEPT !.app.selectedIndex = 0, !.app.scrollOffset = 0]
    ELSE IF key = "G"
    THEN [m EXCEPT !.app.selectedIndex =
             IF Len(visibleRunsOf(m.t, m.app.showArchived)) - 1 < 0 THEN 0
             ELSE Len(visibleRunsOf(m.t, m.app.showArchived)) - 1]
    ELSE IF key \in {"o", "enter"} THEN openSelected(m)
    ELSE IF key = "a"
    THEN IF m.app.showArchived THEN unarchiveSelected(m, in.faults[1], in.order)
         ELSE archiveSelected(m, in.faults[1], in.order)
    ELSE IF key = "A"
    THEN [m EXCEPT !.app.showArchived = ~@, !.app.selectedIndex = 0, !.app.scrollOffset = 0,
                   !.app.status = setStatus(IF ~m.app.showArchived THEN "Viewing archived runs"
                                            ELSE "Viewing active runs", statusNeutral)]
    ELSE IF key = "b"
    THEN [m EXCEPT !.app.bellEnabled = ~@,
                   !.app.status = IF ~m.app.bellEnabled
                                  THEN setStatus("Bell enabled", statusSuccess)
                                  ELSE setStatus("Bell muted", statusNeutral)]
    ELSE m

\* handleKey, below its quit keys: tab and esc move the focus; with the
\* focus on the input, enter submits the URL and every other key goes to the
\* text input or its history, which are not part of the state.
handleOtherKey(m, key, in) ==
    LET f == IF key = "tab" THEN toggleFocus(m)
             ELSE IF key = "esc" THEN setFocus(m, focusRuns) ELSE m
    IN  IF key = "tab" /\ f.app.focus = focusInput THEN f
        ELSE IF f.app.focus = focusInput
        THEN IF key = "enter" THEN submitURL(f, in.url) ELSE f
        ELSE handleRunsKey(f, key, in)

\* handleKey whose quit does not save.
handleKeyQuitNoSave(m, msg, in) ==
    IF msg.key \in {"ctrl+d", "q"} THEN [m EXCEPT !.app.phase = "quit"]
    ELSE handleOtherKey(m, msg.key, in)

\* handleKey: ctrl+c, ctrl+d and q save the tracker and quit, wherever the
\* focus is.
handleKey(m, msg, in) ==
    IF msg.key \in {"ctrl+d", "q"}
    THEN [saveTracker(m, in.faults[1], in.order) EXCEPT !.app.phase = "quit"]
    ELSE handleOtherKey(m, msg.key, in)

\* area.contains
contains(a, y) == y >= a.top /\ y < a.top + a.height

\* handleMouse: a click on a row of the list selects it, a click in the input
\* area gives the input the focus, the wheel moves the selection.
handleMouse(m, msg) ==
    IF msg.Type = "MouseLeft"
    THEN IF contains(m.app.listArea, msg.Y)
         THEN LET row == msg.Y - m.app.listArea.top
                  index == m.app.scrollOffset + row - 1
              IN  IF row <= 0 THEN m
                  ELSE IF index >= 0 /\ index < Len(visibleRunsOf(m.t, m.app.showArchived))
                  THEN ensureSelectionBounds(
                           setFocus([m EXCEPT !.app.selectedIndex = index], focusRuns))
                  ELSE m
         ELSE IF contains(m.app.inputArea, msg.Y) THEN setFocus(m, focusInput)
         ELSE m
    ELSE IF msg.Type = "MouseWheelUp" THEN moveSelection(m, -1)
    ELSE IF msg.Type = "MouseWheelDown" THEN moveSelection(m, 1)
    ELSE m

\* configureLayout (the widths, and with them msg.Width, which is taken to be
\* positive, are left out).
configureLayout(m, height) ==
    IF height <= 0 THEN m
    ELSE [m EXCEPT !.app.listArea = [top |-> 1, height |-> IF height - 6 < 5 THEN 5 ELSE height - 6],
                   !.app.inputArea = [top |-> height - 3, height |-> 3]]

\* Update, case refreshResultMsg, its loop over msg.PRRuns in the order given.
RECURSIVE absorbPRRuns(_, _, _, _, _)
absorbPRRuns(m, prOrder, PRRuns, fault, order) ==
    IF prOrder = <<>> THEN m
    ELSE absorbPRRuns(absorbRuns(m, PRRuns[Head(prOrder)], Head(prOrder), fault, order),
                      Tail(prOrder), PRRuns, fault, order)

\* Update whose refreshTickMsg schedules the next tick only with a refresh.
UpdateTickWithRefresh(m, msg, in) ==
    LET a == [m EXCEPT !.app.status = maybeExpireStatus(@, in.expired)] IN
    IF msg.type = "WindowSizeMsg" THEN configureLayout(a, msg.Height)
    ELSE IF msg.type = "MouseMsg" THEN handleMouse(a, msg)
    ELSE IF msg.type = "KeyMsg" THEN handleKey(a, msg, in)
    ELSE IF msg.type = "fetchResultMsg"
    THEN absorbRuns([a EXCEPT !.app.pendingFetch = FALSE], msg.Runs, msg.Source,
                    in.faults[1], in.order)
    ELSE IF msg.type = "fetchErrMsg"
    THEN [a EXCEPT !.app.pendingFetch = FALSE, !.app.status = setStatus(msg.Err, statusError)]
    ELSE IF msg.type = "openErrMsg"
    THEN [a EXCEPT !.app.status = setStatus(msg.Err, statusError)]
    ELSE IF msg.type = "refreshTickMsg"
    THEN IF Len(visibleRunsOf(a.t, FALSE)) = 0 THEN refreshCmd(a, TRUE)
         ELSE refreshCmd(scheduleRefresh(a), TRUE)
    ELSE IF msg.type = "refreshResultMsg"
    THEN LET b == [a EXCEPT !.app.refreshing = FALSE,
                            !.app.status = IF msg.Err # "" THEN setStatus(msg.Err, statusError)
                                           ELSE @]
         IN  absorbPRRuns(absorbRuns(b, msg.Runs, [Kind |-> KindUnknown], in.faults[1], in.order),
                          in.prOrder, msg.PRRuns, in.faults[2], in.order)
    ELSE a

\* Update: the status line expires, then the message is handled by its type
\* (spinner.TickMsg and the key and mouse events the text input takes change
\* nothing that is part of the state).  in holds what the handler takes from
\* outside: whether the status has expired, the URL typed, the faults of its
\* SaveTracker calls (the first for the runs refreshed, the second for those
\* of the pull requests), the order a range visits the tracker's maps in and
\* the order it visits msg.PRRuns in.
Update(m, msg, in) ==
    LET a == [m EXCEPT !.app.status = maybeExpireStatus(@, in.expired)] IN
    IF msg.type = "WindowSizeMsg" THEN configureLayout(a, msg.Height)
    ELSE IF msg.type = "MouseMsg" THEN handleMouse(a, msg)
    ELSE IF msg.type = "KeyMsg" THEN handleKey(a, msg, in)
    ELSE IF msg.type = "fetchResultMsg"
    THEN absorbRuns([a EXCEPT !.app.pendingFetch = FALSE], msg.Runs, msg.Source,
                    in.faults[1], in.order)
    ELSE IF msg.type = "fetchErrMsg"
    THEN [a EXCEPT !.app.pendingFetch = FALSE, !.app.status = setStatus(msg.Err, statusError)]
    ELSE IF msg.type = "openErrMsg"
    THEN [a EXCEPT !.app.status = setStatus(msg.Err, statusError)]
    ELSE IF msg.type = "refreshTickMsg" THEN refreshCmd(scheduleRefresh(a), TRUE)
    ELSE IF msg.type = "refreshResultMsg"
    THEN LET b == [a EXCEPT !.app.refreshing = FALSE,
                            !.app.status = IF msg.Err # "" THEN setStatus(msg.Err, statusError)
                                           ELSE @]
         IN  absorbPRRuns(absorbRuns(b, msg.Runs, [Kind |-> KindUnknown], in.faults[1], in.order),
                          in.prOrder, msg.PRRuns, in.faults[2], in.order)
    ELSE a

\* The runs the GitHub client answers with in SpecApp: pending or succeeded.
AppRunIDs == 1..NumAppRuns

AppRuns ==
    {run \in WorkflowRun : run.ID \in AppRunIDs
                              /\ run.Status \in {RunStatusPending, RunStatusSuccess}}

\* The URLs the user submits in SpecApp: of a workflow run or of a pull request.
AppSources == {source \in Parsed : source.Kind \in {KindWorkflowRun, KindPullRequest}}

\* What a call of the GitHub client returns: runs and an error ("" for nil),
\* possibly both.
ClientAnswers ==
    {[runs |-> runs, err |-> err] : runs \in SeqsUpTo(AppRuns, MaxFetched),
                                    err \in {"", "error"}}

\* fetchRunsCmd that passes on the runs it has, whatever the error.
fetchRunsCmdKeepsRuns(parsed, answer) ==
    IF answer.runs = <<>> /\ answer.err # ""
    THEN [type |-> "fetchErrMsg", Err |-> answer.err]
    ELSE [type |-> "fetchResultMsg", Runs |-> answer.runs, Source |-> parsed]

\* fetchRunsCmd, with answer what the client call of the URL's kind returns:
\* an error makes it a fetchErrMsg that carries no run.
fetchRunsCmd(parsed, answer) ==
    LET err == IF parsed.Kind \in {KindWorkflowRun, KindPullRequest, KindCommit}
               THEN answer.err ELSE "unsupported GitHub URL"
    IN  IF err # ""
        THEN [type |-> "fetchErrMsg", Err |-> err]
        ELSE [type |-> "fetchResultMsg", Runs |-> answer.runs, Source |-> parsed]

\* The command refreshCmd returns, reading the tracker when it runs.
refreshResultLive(cmd, byID, byPR) ==
    LET came == SelectSeq(activeOrder, LAMBDA id : byID[id] # "error") IN
    [type |-> "refreshResultMsg",
     Runs |-> [i \in DOMAIN came |-> [ID |-> came[i], Status |-> byID[came[i]]]],
     PRRuns |-> [q \in {r \in cmd.prs : byPR[r].err = ""} |-> byPR[q].runs],
     Err |-> IF \/ \E i \in DOMAIN cmd.ids : byID[cmd.ids[i]] = "error"
                \/ \E q \in cmd.prs : byPR[q].err # ""
             THEN "error" ELSE ""]

\* The command refreshCmd returns, run: byID is what WorkflowRunByID returns
\* for each ID (a status, or "error"), byPR what RunsByPullRequest returns for
\* each pull request.  The runs that came are kept, Err is set if any call
\* failed.
refreshResult(cmd, byID, byPR) ==
    LET came == SelectSeq(cmd.ids, LAMBDA id : byID[id] # "error") IN
    [type |-> "refreshResultMsg",
     Runs |-> [i \in DOMAIN came |-> [ID |-> came[i], Status |-> byID[came[i]]]],
     PRRuns |-> [q \in {r \in cmd.prs : byPR[r].err = ""} |-> byPR[q].runs],
     Err |-> IF \/ \E i \in DOMAIN cmd.ids : byID[cmd.ids[i]] = "error"
                \/ \E q \in cmd.prs : byPR[q].err # ""
             THEN "error" ELSE ""]

\* The IDs of the runs a message carries.
givenIDs(msg) ==
    IF msg.type = "fetchResultMsg" THEN {msg.Runs[i].ID : i \in DOMAIN msg.Runs}
    ELSE IF msg.type = "refreshResultMsg"
    THEN {msg.Runs[i].ID : i \in DOMAIN msg.Runs}
            \cup UNION {{msg.PRRuns[q][i].ID : i \in DOMAIN msg.PRRuns[q]} : q \in DOMAIN msg.PRRuns}
    ELSE {}

\* A call of Update: the message (its type, its key, the IDs of its runs),
\* the command it answers and whether that had failed, and what the handler
\* did.
UpdateRet(msg, failed, m) ==
    [op |-> "Update", id |-> 0, status |-> RunStatusPending,
     newRun |-> FALSE, statusChanged |-> FALSE, ok |-> FALSE,
     type |-> msg.type, key |-> IF msg.type = "KeyMsg" THEN msg.key ELSE "",
     given |-> givenIDs(msg), failed |-> failed, cmd |-> m.cmd,
     upserts |-> m.upserts, saves |-> m.saves, batches |-> m.batches, rings |-> m.rings]

\* What a handler takes from outside, where the message decides nothing else.
Outside(expired, faults, order) ==
    [expired |-> expired, url |-> NoText, faults |-> faults, order |-> order, prOrder |-> <<>>]

\* The faults may happen: MaxFaults bounds the failed file operations.
FaultsLeft(faults) ==
    app.faults + Cardinality({i \in DOMAIN faults : faults[i] # "none"}) <= MaxFaults

\* What the handler leaves is the state.
Commit(after, msg, failed) ==
    /\ active' = after.t.active
    /\ archived' = after.t.archived
    /\ activeOrder' = after.t.activeOrder
    /\ archivedOrder' = after.t.archivedOrder
    /\ disk' = after.disk
    /\ saved' = after.saved
    /\ app' = after.app
    /\ inflight' = after.cmds
    /\ ret' = UpdateRet(msg, failed, after)
    /\ NoteOther
    /\ UNCHANGED <<now, saving, shareVars>>

\* The program handles msg: Update runs on the machine m.
Handle(m, msg, in, failed) ==
    \E after \in {Update(m, msg, in)} :
        /\ Len(after.cmds) <= MaxInflight
        /\ Commit(after, msg, failed)

\* New: NewTracker, LoadTracker on it (its error is dropped), the Model with
\* the bell as the command line sets it.
AppNew(fault, bell) ==
    /\ app.phase = "down"
    /\ FaultsLeft(<<fault>>)
    /\ LoadTracker(disk.state, fault)
    /\ app' = [AppDown EXCEPT !.phase = "new", !.bellEnabled = bell,
                              !.faults = IF fault = "none" THEN app.faults ELSE app.faults + 1]
    /\ inflight' = <<>>
    /\ NoteOther
    /\ UNCHANGED <<disk, saving, saved, shareVars>>

\* Init, called once when the program starts: the first tick is scheduled.
AppInit ==
    /\ app.phase = "new"
    /\ app' = [scheduleRefresh(Machine).app EXCEPT !.phase = "up"]
    /\ ret' = IORet("Init", "none", "nil")
    /\ NoteOther
    /\ UNCHANGED <<active, archived, activeOrder, archivedOrder, now, shareVars,
                   disk, saving, saved, inflight>>

\* What handleKey takes from outside for the key: a fault and a map order
\* where it saves, the text typed where it submits.
KeyInputs(key, expired, faults, orders, sources) ==
    IF key \in {"q", "ctrl+d"} \/ (key = "a" /\ app.focus = focusRuns)
    THEN {Outside(expired, <<fault>>, order) : fault \in faults, order \in orders}
    ELSE IF key = "enter" /\ app.focus = focusInput
    THEN {[Outside(expired, <<"none">>, <<>>) EXCEPT !.url = url] :
              url \in {NoText, BadText} \cup {u \in URLs : u.parsed \in sources}}
    ELSE {Outside(expired, <<"none">>, <<>>)}

\* A key is pressed: one of runsKeys with the focus on the run list, one of
\* inputKeys with the focus on the input.
KeyPressOf(runsKeys, inputKeys, faults, orders, sources, limit) ==
    \E key \in IF app.focus = focusRuns THEN runsKeys ELSE inputKeys, expired \in BOOLEAN :
        \E in \in KeyInputs(key, expired, faults, orders, sources) :
            /\ app.phase = "up"
            /\ FaultsLeft(in.faults)
            /\ \E after \in {Update(Machine, [type |-> "KeyMsg", key |-> key], in)} :
                  /\ Len(after.cmds) <= limit
                  /\ Commit(after, [type |-> "KeyMsg", key |-> key], FALSE)

\* In SpecApp the user quits, moves the focus, archives and restores, changes
\* the list shown, jumps to its ends and submits URLs.
KeyPress ==
    KeyPressOf({"q", "a", "A", "g", "G", "tab"}, {"q", "enter", "tab"},
               SaveFaults, Listings(AppRunIDs), AppSources, MaxInflight)

\* The poll interval has passed: a tick that was scheduled is handled.
RefreshTickOf(limit) ==
    \E expired \in BOOLEAN :
        /\ app.phase = "up"
        /\ app.ticks > 0
        /\ \E after \in {Update([Machine EXCEPT !.app.ticks = @ - 1], [type |-> "refreshTickMsg"],
                                Outside(expired, <<"none">>, <<>>))} :
              /\ Len(after.cmds) <= limit
              /\ Commit(after, [type |-> "refreshTickMsg"], FALSE)

RefreshTick == RefreshTickOf(MaxInflight)

\* inflight once the answer of its i-th command, which carries the runs ids,
\* is handled: the commands before it were issued earlier, and for them the
\* runs are passed.
leaving(cmds, i, ids) ==
    [j \in 1..(Len(cmds) - 1) |->
        IF j < i THEN [cmds[j] EXCEPT !.passed = @ \cup ids] ELSE cmds[j + 1]]

\* The handler of the answer msg of the i-th command in flight.
Answered(i, msg) ==
    [Machine EXCEPT !.cmds = leaving(inflight, i, givenIDs(msg)), !.cmd = inflight[i]]

\* A fetch answers, and its message is handled; the SaveTracker call of the
\* handler meets one of faults.
FetchDoneOf(faults) ==
    \E i \in DOMAIN inflight, answer \in ClientAnswers, expired \in BOOLEAN,
       fault \in faults, order \in Listings(AppRunIDs) :
        /\ app.phase = "up"
        /\ inflight[i].kind = "fetch"
        /\ (inflight[i].source.Kind = KindWorkflowRun /\ answer.err = "")
              => Len(answer.runs) = 1
        /\ FaultsLeft(<<fault>>)
        /\ Handle(Answered(i, fetchRunsCmd(inflight[i].source, answer)),
                  fetchRunsCmd(inflight[i].source, answer),
                  Outside(expired, <<fault>>, order),
                  answer.err # "")

FetchDone == FetchDoneOf(SaveFaults)

\* A refresh answers, and its message is handled: WorkflowRunByID returns
\* one of results for each of ids, the SaveTracker calls of the handler meet
\* faults of saveFaults and visit the maps in one of orders.
RefreshDoneOf(saveFaults, ids, results, orders) ==
    \E i \in DOMAIN inflight : inflight[i].kind = "refresh" /\
    \E byID \in [ids -> results],
       byPR \in [inflight[i].prs -> ClientAnswers], expired \in BOOLEAN,
       faults \in [1..2 -> saveFaults], order \in orders :
        LET msg == refreshResult(inflight[i], byID, byPR) IN
        /\ app.phase = "up"
        /\ FaultsLeft(faults)
        /\ \E prOrder \in Listings(DOMAIN msg.PRRuns) :
              Handle(Answered(i, msg), msg,
                     [Outside(expired, faults, order) EXCEPT !.prOrder = prOrder],
                     msg.Err # "")

RefreshDone ==
    RefreshDoneOf(SaveFaults, AppRunIDs, {"error", RunStatusPending, RunStatusSuccess},
                  Listings(AppRunIDs))

\* The program ends after tea.Quit: the tracker and the Model are gone, the
\* files stay.
ProcessEnds ==
    /\ app.phase = "quit"
    /\ active' = EmptyMap
    /\ archived' = EmptyMap
    /\ activeOrder' = <<>>
    /\ archivedOrder' = <<>>
    /\ app' = [AppDown EXCEPT !.faults = app.faults]
    /\ inflight' = <<>>
    /\ ret' = IORet("restart", "none", "nil")
    /\ NoteOther
    /\ UNCHANGED <<now, shareVars, disk, saving, saved>>

\* The application from its start to its end and again, over whatever state
\* file it finds; the bell is left as the command line has it by default.
NextApp ==
    \/ \E fault \in LoadFaults : AppNew(fault, TRUE)
    \/ AppInit
    \/ KeyPress
    \/ RefreshTick
    \/ FetchDone
    \/ RefreshDone
    \/ ProcessEnds
    \/ app.phase = "down" /\ Foreign

SpecApp == Init /\ [][NextApp]_vars

\* ------------------------------------------------- commands that overlap

\* A step of a command's goroutine.
CmdRet(kind) ==
    [op |-> "Cmd", id |-> 0, status |-> RunStatusPending,
     newRun |-> FALSE, statusChanged |-> FALSE, ok |-> FALSE, kind |-> kind]

\* The i-th command in flight returns msg: the message waits for the event
\* loop.  Nothing else changes.
Returns(i, msg, failed) ==
    /\ inflight' = [inflight EXCEPT ![i] = [kind |-> "msg", passed |-> inflight[i].passed,
                                            cmd |-> inflight[i], msg |-> msg, failed |-> failed]]
    /\ ret' = CmdRet(inflight[i].kind)
    /\ NoteOther
    /\ UNCHANGED <<active, archived, activeOrder, archivedOrder, now, shareVars,
                   disk, saving, saved, app>>

\* The goroutine of a fetch runs: it calls the client for the URL it holds.
FetchAnswers ==
    \E i \in DOMAIN inflight, answer \in ClientAnswers :
        /\ inflight[i].kind = "fetch"
        /\ (inflight[i].source.Kind = KindWorkflowRun /\ answer.err = "")
              => Len(answer.runs) = 1
        /\ Returns(i, fetchRunsCmd(inflight[i].source, answer), answer.err # "")

\* The goroutine of a refresh runs: it calls the client for the runs and the
\* pull requests it holds.
RefreshAnswers ==
    \E i \in DOMAIN inflight : inflight[i].kind = "refresh" /\
    \E byID \in [AppRunIDs -> {"error", RunStatusPending, RunStatusSuccess}],
       byPR \in [inflight[i].prs -> ClientAnswers] :
        \E msg \in {refreshResult(inflight[i], byID, byPR)} :
            Returns(i, msg, msg.Err # "")

\* The event loop takes a message that waits and Update handles it.
Deliver ==
    \E i \in DOMAIN inflight : inflight[i].kind = "msg" /\
    \E expired \in BOOLEAN, order \in Listings(AppRunIDs) :
        LET msg == inflight[i].msg
            m == [Machine EXCEPT !.cmds = leaving(inflight, i, givenIDs(msg)),
                                 !.cmd = [inflight[i].cmd EXCEPT !.passed = inflight[i].passed]]
        IN  /\ app.phase = "up"
            /\ \E prOrder \in Listings(IF msg.type = "refreshResultMsg"
                                        THEN DOMAIN msg.PRRuns ELSE {}) :
                \E after \in {Update(m, msg, [Outside(expired, <<"none", "none">>, order)
                                                  EXCEPT !.prOrder = prOrder])} :
                    /\ Len(after.cmds) <= MaxOverlap
                    /\ Commit(after, msg, inflight[i].failed)

\* The URLs the user submits in SpecPoll: of a workflow run.
RunSources == {source \in Parsed : source.Kind = KindWorkflowRun}

\* In SpecPoll the user moves the focus, submits URLs of runs and archives.
PollKeys ==
    KeyPressOf({"a", "tab"}, {"enter", "tab"}, {"none"}, Listings(AppRunIDs), RunSources,
               MaxOverlap)

\* One run of the application over an empty data directory, with no fault of
\* the files: commands run in their goroutines while the event loop handles
\* keys, ticks and the messages that wait.
NextPoll ==
    \/ AppNew("none", TRUE)
    \/ AppInit
    \/ PollKeys
    \/ RefreshTickOf(MaxOverlap)
    \/ FetchAnswers
    \/ RefreshAnswers
    \/ Deliver

SpecPoll == Init /\ [][NextPoll]_vars

\* ------------------------------------------------- refreshes and the bell

\* In SpecRefresh the user archives and restores, changes the list shown,
\* mutes the bell and moves the focus to the input, where every key is
\* pressed.
RefreshKeys ==
    KeyPressOf({"a", "A", "b", "tab"}, Keys,
               {"none"}, Listings(AppRunIDs), AppSources, MaxInflight)

\* One run of the application over an empty data directory, with no fault of
\* the files, the bell on or off at its start.
NextRefresh ==
    \/ \E bell \in BOOLEAN : AppNew("none", bell)
    \/ AppInit
    \/ RefreshKeys
    \/ RefreshTick
    \/ FetchDoneOf({"none"})
    \/ RefreshDoneOf({"none"}, AppRunIDs, {"error", RunStatusPending, RunStatusSuccess},
                     Listings(AppRunIDs))

SpecRefresh == Init /\ [][NextRefresh]_vars

\* ------------------------------------------------------------ the run list

ViewRunIDs == 1..NumViewRuns

\* The state file an earlier session has left with the runs ids: all active
\* and pending, in the order of their IDs.
ViewFileOf(ids) ==
    stateData(stateVersion,
              convertToData([i \in ids |->
                  newEntry([ID |-> i, Status |-> RunStatusPending], [Kind |-> KindWorkflowRun], 1)]),
              [i \in ids |-> i], <<>>, <<>>, 1)

ViewFile == ViewFileOf(ViewRunIDs)

\* The data directory holds the file, the application has not started.
InitViewOf(file) ==
    /\ active = EmptyMap
    /\ archived = EmptyMap
    /\ activeOrder = <<>>
    /\ archivedOrder = <<>>
    /\ now = 1
    /\ ret = NoCall
    /\ upserted = [distinct |-> TRUE, ids |-> <<>>]
    /\ firstKnown = EmptyMap
    /\ arrays = EmptyMap
    /\ orderAt = [active |-> NilSlice, archived |-> NilSlice]
    /\ held = NoHeld
    /\ imports = 0
    /\ disk = [state |-> file, tmp |-> NoFile]
    /\ saving = Idle
    /\ saved = NoSave
    /\ app = AppDown
    /\ inflight = <<>>

InitView == InitViewOf(ViewFile)

\* In SpecView the focus stays on the run list: the user moves the selection,
\* archives and restores, and changes the list shown.  A save visits the maps
\* in the order of the IDs.
ViewKeys ==
    KeyPressOf({"j", "k", "pgdown", "pgup", "g", "G", "a", "A"}, {},
               {"none"}, {[i \in ViewRunIDs |-> i]}, {}, MaxInflight)

\* The terminal heights of a tea.WindowSizeMsg in SpecView: none yet known
\* (0), or one that leaves the list its least height.
ViewHeights == {0, 8}

\* The terminal reports its size.
WindowSize ==
    \E height \in ViewHeights, expired \in BOOLEAN :
        /\ app.phase = "up"
        /\ Handle(Machine, [type |-> "WindowSizeMsg", Height |-> height],
                  Outside(expired, <<"none">>, <<>>), FALSE)

\* The mouse: a click on a line of the list area, or the wheel.
Mouse ==
    \E type \in {"MouseLeft", "MouseWheelUp", "MouseWheelDown"},
       y \in 1..(NumViewRuns + 1), expired \in BOOLEAN :
        /\ app.phase = "up"
        /\ type # "MouseLeft" => y = 1
        /\ Handle(Machine, [type |-> "MouseMsg", Type |-> type, Y |-> y],
                  Outside(expired, <<"none">>, <<>>), FALSE)

\* One run of the application over that state file: keys of the run list,
\* the mouse on the list, the terminal's size, and the answer of the
\* refresh that follows a restore, which finds every run pending still.
NextView ==
    \/ AppNew("none", TRUE)
    \/ AppInit
    \/ ViewKeys
    \/ WindowSize
    \/ Mouse
    \/ RefreshDoneOf({"none"}, ViewRunIDs, {RunStatusPending}, {[i \in ViewRunIDs |-> i]})

SpecView == InitView /\ [][NextView]_vars

\* ------------------------------------------- a list longer than its window

ScrollRunIDs == 1..NumScrollRuns

\* The data directory holds a state file with more runs than the list area
\* of least height shows.
InitScroll == InitViewOf(ViewFileOf(ScrollRunIDs))

\* In SpecScroll the user moves the selection and archives.
ScrollKeys ==
    KeyPressOf({"j", "k", "g", "G", "a"}, {},
               {"none"}, {[i \in ScrollRunIDs |-> i]}, {}, MaxInflight)

\* The terminal reports a size that leaves the list its least height.
ScrollWindowSize ==
    /\ app.phase = "up"
    /\ Handle(Machine, [type |-> "WindowSizeMsg", Height |-> 8],
              Outside(FALSE, <<"none">>, <<>>), FALSE)

NextScroll ==
    \/ AppNew("none", TRUE)
    \/ AppInit
    \/ ScrollWindowSize
    \/ ScrollKeys

SpecScroll == InitScroll /\ [][NextScroll]_vars

\* ============================================================= properties

\* The run IDs tracked in either catalog.
Tracked == DOMAIN active \cup DOMAIN archived

\* A sequence without the occurrences of id: the relative order of the rest.
Others(seq, id) == SelectSeq(seq, LAMBDA x : x # id)

\* How often id occurs in a sequence.
Count(seq, id) == Cardinality({i \in DOMAIN seq : seq[i] = id})

\* The run IDs of a sequence of entries.
RunIDsOf(runs) == [i \in DOMAIN runs |-> runs[i].Run.ID]

\* The last call was Upsert / Archive / Unarchive (evaluated in the state
\* the call left behind).
Called(op, id) == ret.op = op /\ ret.id = id

\* C1: no run ID is in both catalogs, every ID handed to Upsert is in one of
\* them after the call, and no call removes an ID from the tracker: a tracked
\* run stays in exactly one of the two catalogs.
C1_OneCatalog ==
    [][ /\ (DOMAIN active' \cap DOMAIN archived') = {}
        /\ Tracked \subseteq Tracked'
        /\ (ret'.op = "Upsert" => ret'.id \in Tracked') ]_vars

\* C1 witness: a run went to the archive and back, another one is archived.
C1_Witness ==
    /\ DOMAIN active # {}
    /\ DOMAIN archived # {}
    /\ \E id \in DOMAIN active : active[id].ArchivedAt # ZeroTime

\* C2: in each catalog the order sequence names exactly the keys of the map.
C2_OrderMatchesMap ==
    /\ Range(activeOrder) = DOMAIN active
    /\ Range(archivedOrder) = DOMAIN archived

\* C2 witness: a run was just moved from the archived catalog to the active
\* one, and two runs are still archived.
C2_Witness ==
    /\ Len(activeOrder) = 1
    /\ Len(archivedOrder) = 2
    /\ Called("Unarchive", activeOrder[1])
    /\ ret.ok

\* C3: no ID occurs twice in an order sequence, and prependUnique of an ID
\* that is already in a sequence yields that ID once, at the front, followed
\* by the other IDs in their old order.
C3_NoDuplicates ==
    /\ \A id \in RunIDs : Count(activeOrder, id) <= 1 /\ Count(archivedOrder, id) <= 1
    /\ \A seq \in {activeOrder, archivedOrder} : \A id \in Range(seq) :
          LET out == prependUnique(seq, id) IN
          /\ out[1] = id
          /\ Count(out, id) = 1
          /\ Len(out) = Len(seq)
          /\ Tail(out) = Others(seq, id)

\* C3 witness: an order sequence of three IDs, so that prependUnique moves an
\* ID from the back to the front.
C3_Witness ==
    /\ Len(activeOrder) = 3
    /\ ret.op = "Unarchive"
    /\ ret.ok

\* The step is a call Upsert(run, source) with run.ID = id (the call is read
\* off the state it leaves behind).
UpsertCall(id) == ret'.op = "Upsert" /\ ret'.id = id

ArchiveCall(id) == ret'.op = "Archive" /\ ret'.id = id

UnarchiveCall(id) == ret'.op = "Unarchive" /\ ret'.id = id

\* C4: Upsert of an ID in neither catalog returns (true, false) and puts the
\* ID into the active map and at index 0 of the active order; the IDs active
\* before keep their order behind it and the archived catalog is untouched.
C4_UpsertUnseen ==
    [][ \A id \in RunIDs : (UpsertCall(id) /\ id \notin Tracked) =>
          /\ ret'.newRun
          /\ ~ret'.statusChanged
          /\ id \in DOMAIN active'
          /\ activeOrder' # <<>>
          /\ activeOrder'[1] = id
          /\ Tail(activeOrder') = activeOrder
          /\ \A k \in DOMAIN active : k \in DOMAIN active' /\ active'[k] = active[k]
          /\ archived' = archived
          /\ archivedOrder' = archivedOrder ]_vars

\* C4 witness: a run never archived was just upserted as new, in front of a
\* run that was active before, while the archive holds a run.
C4_Witness ==
    /\ Len(activeOrder) >= 2
    /\ Len(archivedOrder) >= 1
    /\ Called("Upsert", activeOrder[1])
    /\ ret.newRun
    /\ ~ret.statusChanged
    /\ active[ret.id].ArchivedAt = ZeroTime

\* C5: Upsert of an active ID returns isNew = false and statusChanged = (the
\* status stored before differs from the supplied one), and the stored record
\* becomes the supplied record.
C5_UpsertActiveResult ==
    [][ \A id \in RunIDs : (UpsertCall(id) /\ id \in DOMAIN active) =>
          /\ ~ret'.newRun
          /\ ret'.statusChanged = (active[id].Run.Status # ret'.status)
          /\ id \in DOMAIN active'
          /\ active'[id].Run = [ID |-> id, Status |-> ret'.status] ]_vars

\* C5 witness: an active run was upserted with another status: (false, true).
C5_Witness ==
    /\ ret.op = "Upsert"
    /\ ~ret.newRun
    /\ ret.statusChanged
    /\ ret.id \in DOMAIN active
    /\ active[ret.id].Run.Status = RunStatusSuccess

\* C6: Upsert of an active ID changes neither order sequence, neither key
\* set, no archived entry and no other active entry.
C6_UpsertActiveFrame ==
    [][ \A id \in RunIDs : (UpsertCall(id) /\ id \in DOMAIN active) =>
          /\ activeOrder' = activeOrder
          /\ archivedOrder' = archivedOrder
          /\ DOMAIN active' = DOMAIN active
          /\ DOMAIN archived' = DOMAIN archived
          /\ \A k \in DOMAIN archived : archived'[k] = archived[k]
          /\ \A k \in DOMAIN active \ {id} : active'[k] = active[k] ]_vars

\* C6 witness: the refreshed run is not at the front of the active order, and
\* the archive holds a run.
C6_Witness ==
    /\ ret.op = "Upsert"
    /\ ~ret.newRun
    /\ Len(activeOrder) >= 2
    /\ activeOrder[Len(activeOrder)] = ret.id
    /\ Len(archivedOrder) >= 1

\* C7: Upsert of an archived ID takes it out of the archived map and order
\* and puts it into the active map at the front of the active order: it is
\* first in VisibleRuns(false), absent from VisibleRuns(true), LenActive
\* grows by 1 and LenArchived shrinks by 1.
C7_UpsertRevives ==
    [][ \A id \in RunIDs : (UpsertCall(id) /\ id \in DOMAIN archived) =>
          /\ id \notin DOMAIN archived'
          /\ id \notin Range(archivedOrder')
          /\ id \in DOMAIN active'
          /\ activeOrder' # <<>>
          /\ activeOrder'[1] = id
          /\ VisibleRuns(FALSE)' # <<>>
          /\ VisibleRuns(FALSE)'[1].Run.ID = id
          /\ id \notin Range(RunIDsOf(VisibleRuns(TRUE)'))
          /\ LenActive' = LenActive + 1
          /\ LenArchived' = LenArchived - 1 ]_vars

\* C7 witness: a run that had been archived was upserted and is in front of
\* another active run, while another run is still archived.
C7_Witness ==
    /\ Len(activeOrder) >= 2
    /\ Len(archivedOrder) >= 1
    /\ Called("Upsert", activeOrder[1])
    /\ ret.newRun
    /\ active[ret.id].ArchivedAt # ZeroTime

\* C8: Upsert of an archived ID returns isNew = true and statusChanged = (the
\* status stored while archived differs from the supplied one); when the run
\* is the only one tracked, was archived as pending and comes back as success,
\* the call returns (true, true) and leaves one active and no archived run.
C8_UpsertArchivedResult ==
    [][ \A id \in RunIDs : (UpsertCall(id) /\ id \in DOMAIN archived) =>
          /\ ret'.newRun
          /\ ret'.statusChanged = (archived[id].Run.Status # ret'.status)
          /\ ( /\ Tracked = {id}
               /\ archived[id].Run.Status = RunStatusPending
               /\ ret'.status = RunStatusSuccess )
             => (ret'.newRun /\ ret'.statusChanged /\ LenActive' = 1 /\ LenArchived' = 0) ]_vars

\* C8 witness: the end of Upsert(pending), Archive, Upsert(success).
C8_Witness ==
    /\ ret.op = "Upsert"
    /\ ret.newRun
    /\ ret.statusChanged
    /\ ret.status = RunStatusSuccess
    /\ LenActive = 1
    /\ LenArchived = 0
    /\ active[ret.id].ArchivedAt # ZeroTime

\* C9: Archive of an active ID returns true, takes the run out of
\* VisibleRuns(false) and puts it first in VisibleRuns(true); LenActive drops
\* by 1, LenArchived grows by 1, every other ID keeps its place relative to
\* the others in both catalogs.
C9_ArchiveActive ==
    [][ \A id \in RunIDs : (ArchiveCall(id) /\ id \in DOMAIN active) =>
          /\ ret'.ok
          /\ id \notin Range(RunIDsOf(VisibleRuns(FALSE)'))
          /\ VisibleRuns(TRUE)' # <<>>
          /\ VisibleRuns(TRUE)'[1].Run.ID = id
          /\ LenActive' = LenActive - 1
          /\ LenArchived' = LenArchived + 1
          /\ activeOrder' = Others(activeOrder, id)
          /\ Others(archivedOrder', id) = archivedOrder
          /\ RunIDsOf(VisibleRuns(FALSE)') = Others(RunIDsOf(VisibleRuns(FALSE)), id)
          /\ Others(RunIDsOf(VisibleRuns(TRUE)'), id) = RunIDsOf(VisibleRuns(TRUE)) ]_vars

\* C9 witness: a run was archived in front of an older archived run, and a run
\* is still active.
C9_Witness ==
    /\ Len(archivedOrder) >= 2
    /\ Len(activeOrder) >= 1
    /\ Called("Archive", archivedOrder[1])
    /\ ret.ok
    /\ archived[ret.id].ArchivedAt # ZeroTime

\* C10: Unarchive of an archived ID returns true, takes the run out of the
\* archived catalog and puts it at the front of the active order; LenArchived
\* drops by 1, LenActive grows by 1, every other ID keeps its place relative
\* to the others in both catalogs.
C10_UnarchiveArchived ==
    [][ \A id \in RunIDs : (UnarchiveCall(id) /\ id \in DOMAIN archived) =>
          /\ ret'.ok
          /\ id \notin DOMAIN archived'
          /\ id \notin Range(archivedOrder')
          /\ id \in DOMAIN active'
          /\ activeOrder' # <<>>
          /\ activeOrder'[1] = id
          /\ LenArchived' = LenArchived - 1
          /\ LenActive' = LenActive + 1
          /\ archivedOrder' = Others(archivedOrder, id)
          /\ Others(activeOrder', id) = activeOrder ]_vars

\* C10 witness: a run was unarchived in front of another active run, and a run
\* is still archived.
C10_Witness ==
    /\ Len(activeOrder) >= 2
    /\ Len(archivedOrder) >= 1
    /\ Called("Unarchive", activeOrder[1])
    /\ ret.ok

\* The entry of a tracked run, in whichever catalog it is.
Entry(id) == IF id \in DOMAIN active THEN active[id] ELSE archived[id]

\* The reverse of a sequence.
Reverse(seq) == [i \in DOMAIN seq |-> seq[Len(seq) + 1 - i]]

\* C11: Archive of an ID that is not active and Unarchive of an ID that is
\* not archived return false and change neither map (no entry, no field of
\* an entry) nor either order sequence; both calls can be made in every state.
C11_FailedMoveIsNoOp ==
    [][ \A id \in FewRunIDs :
          /\ ENABLED Archive(id)
          /\ ENABLED Unarchive(id)
          /\ (ArchiveCall(id) /\ id \notin DOMAIN active) =>
                /\ ~ret'.ok
                /\ active' = active /\ archived' = archived
                /\ activeOrder' = activeOrder /\ archivedOrder' = archivedOrder
          /\ (UnarchiveCall(id) /\ id \notin DOMAIN archived) =>
                /\ ~ret'.ok
                /\ active' = active /\ archived' = archived
                /\ activeOrder' = activeOrder /\ archivedOrder' = archivedOrder ]_vars

\* C11 witness: Archive was called for a run archived at an earlier instant.
C11_Witness ==
    /\ ret.op = "Archive"
    /\ ~ret.ok
    /\ ret.id \in DOMAIN archived
    /\ archived[ret.id].ArchivedAt < now

\* C12: as long as every call on the fresh tracker was an Upsert of an ID not
\* upserted before, LenActive is the number of IDs upserted and IDs(false) is
\* these IDs, the last upserted first; upserting 1, 2, 3 yields <<3, 2, 1>>.
C12_DistinctUpserts ==
    upserted.distinct =>
        /\ LenActive = Len(upserted.ids)
        /\ IDs(FALSE) = Reverse(upserted.ids)
        /\ (upserted.ids = <<1, 2, 3>> => IDs(FALSE) = <<3, 2, 1>>)

\* C12 witness: the runs 1, 2, 3 were upserted in this order and nothing else.
C12_Witness ==
    /\ upserted.distinct
    /\ upserted.ids = <<1, 2, 3>>

\* C14: the stored source of every tracked run is the first known-kind
\* source an Upsert supplied for its ID, and unknown while none was supplied.
C14_FirstKnownSourceWins ==
    \A id \in Tracked :
        Entry(id).Source = IF id \in DOMAIN firstKnown THEN firstKnown[id]
                           ELSE [Kind |-> KindUnknown]

\* C14 witness: a run came back from the archive by an Upsert, it carries a
\* known source, and another run has been given none.
C14_Witness ==
    /\ ret.op = "Upsert"
    /\ ret.newRun
    /\ ret.id \in DOMAIN active
    /\ active[ret.id].ArchivedAt # ZeroTime
    /\ active[ret.id].Source.Kind = KindCommit
    /\ \E id \in Tracked : Entry(id).Source.Kind = KindUnknown

\* C15: AddedAt is the instant of the Upsert that inserted the ID, and no
\* later call changes it.
C15_AddedAtSetOnce ==
    [][ \A id \in FewRunIDs :
          /\ (UpsertCall(id) /\ id \notin Tracked) =>
                (id \in Tracked' /\ Entry(id)'.AddedAt = now)
          /\ (id \in Tracked) =>
                (id \in Tracked' /\ Entry(id)'.AddedAt = Entry(id).AddedAt) ]_vars

\* C15 witness: a run inserted at an earlier instant came back from the
\* archive by an Upsert.
C15_Witness ==
    /\ ret.op = "Upsert"
    /\ ret.newRun
    /\ ret.id \in DOMAIN active
    /\ active[ret.id].ArchivedAt # ZeroTime
    /\ active[ret.id].AddedAt < now

\* C16: a successful Archive sets ArchivedAt to the instant of the call, also
\* when the run had been archived before; no other call changes ArchivedAt.
C16_ArchivedAtStamped ==
    [][ \A id \in FewRunIDs :
          IF ArchiveCall(id) /\ id \in DOMAIN active
          THEN id \in DOMAIN archived' /\ archived'[id].ArchivedAt = now
          ELSE (id \in Tracked) =>
                  (id \in Tracked' /\ Entry(id)'.ArchivedAt = Entry(id).ArchivedAt) ]_vars

\* C16 witness: a run was archived at an instant later than its insertion,
\* and the other run, archived before, came back and keeps its ArchivedAt.
C16_Witness ==
    /\ ret.op = "Archive"
    /\ ret.ok
    /\ ret.id \in DOMAIN archived
    /\ archived[ret.id].ArchivedAt = now
    /\ archived[ret.id].AddedAt < now
    /\ \E id \in DOMAIN active : active[id].ArchivedAt # ZeroTime /\ active[id].ArchivedAt < now

\* C17: in any tracker state, also after ImportState was given an order
\* sequence naming IDs that none of the entries given has, VisibleRuns returns
\* exactly the entries of the chosen catalog's map that the catalog's order
\* sequence names, in the order it names them; an ID of the order sequence
\* without a map entry contributes nothing.
C17_VisibleRunsSkipsMissing ==
    \A showArchived \in BOOLEAN :
        LET order == IF showArchived THEN archivedOrder ELSE activeOrder
            lookup == IF showArchived THEN archived ELSE active
            Present(id) == id \in DOMAIN lookup
            kept == SelectSeq(order, Present)
        IN  VisibleRuns(showArchived) = [i \in 1..Len(kept) |-> lookup[kept[i]]]

\* C17 witness: ImportState has just been given an active order that names
\* an ID without an entry ahead of an ID that has one.
C17_Witness ==
    /\ ret.op = "ImportState"
    /\ Len(activeOrder) = 2
    /\ activeOrder[1] \notin DOMAIN active
    /\ activeOrder[2] \in DOMAIN active
    /\ Len(VisibleRuns(FALSE)) = 1

\* Each order sequence lists exactly the IDs of its catalog's map, once each.
OrdersListMaps ==
    /\ Range(activeOrder) = DOMAIN active
    /\ Range(archivedOrder) = DOMAIN archived
    /\ Len(activeOrder) = Cardinality(DOMAIN active)
    /\ Len(archivedOrder) = Cardinality(DOMAIN archived)

\* IDs is the sequence of the run IDs of what VisibleRuns returns, and the
\* two lengths are the lengths of those sequences.
IDsAreVisibleRunIDs ==
    /\ \A showArchived \in BOOLEAN :
          IDs(showArchived) = RunIDsOf(VisibleRuns(showArchived))
    /\ LenActive = Len(VisibleRuns(FALSE))
    /\ LenArchived = Len(VisibleRuns(TRUE))

Views == <<VisibleRuns(FALSE), VisibleRuns(TRUE), IDs(FALSE), IDs(TRUE)>>

\* C13: ExportState changes nothing the queries show, and ImportState given
\* the four values ExportState has just returned leaves VisibleRuns(false),
\* VisibleRuns(true), IDs(false) and IDs(true) as they were before the export,
\* element for element.  (ImportState reads nothing of its receiver, so the
\* step is also that of a fresh tracker importing the values.)
C13_RoundTrip ==
    [][ /\ ret'.op = "ExportState" => Views' = Views
        /\ (ret.op = "ExportState" /\ ret'.op = "ImportState") => Views' = Views
      ]_vars

\* C13 witness: ImportState was given at once what ExportState returned of a
\* tracker with a run in each catalog.
C13_Witness ==
    /\ ret.op = "ImportState"
    /\ held.kind = "export"
    /\ held.given = "at once"
    /\ Len(VisibleRuns(FALSE)) = 1
    /\ Len(VisibleRuns(TRUE)) = 1
    /\ VisibleRuns(TRUE)[1].ArchivedAt # ZeroTime

\* The order sequences the caller holds, as they are by now.
HeldOrders ==
    IF held.kind = "ids" THEN <<Elems(arrays, held.order)>>
    ELSE IF held.kind = "export"
    THEN <<Elems(arrays, held.activeOrder), Elems(arrays, held.archivedOrder)>>
    ELSE <<>>

\* C19: the order sequences ExportState and IDs return are independent
\* copies, and ImportState copies the order sequences it is given: a write to
\* a sequence the caller holds (returned to it, or given by it to ImportState)
\* changes neither order of the tracker, and no Upsert, Archive or Unarchive
\* (with the in-place filtering of removeID) changes a sequence the caller
\* holds.
C19_OrdersAreCopies ==
    [][ /\ ret'.op = "write" =>
              /\ IDs(FALSE)' = IDs(FALSE)
              /\ IDs(TRUE)' = IDs(TRUE)
              /\ VisibleRuns(FALSE)' = VisibleRuns(FALSE)
              /\ VisibleRuns(TRUE)' = VisibleRuns(TRUE)
        /\ ret'.op \in {"Upsert", "Archive", "Unarchive"} => HeldOrders' = HeldOrders
      ]_vars

\* C19 witness: the caller gave the sequences it holds to ImportState, and
\* Archive has just filtered the front ID out of the tracker's active order
\* in place, of two.
C19_Witness ==
    /\ ret.op = "Archive"
    /\ ret.ok
    /\ held.kind = "export"
    /\ held.given # "no"
    /\ Len(activeOrder) = 1
    /\ Elems(arrays, held.activeOrder) = <<ret.id, activeOrder[1]>>

\* The entries of the snapshot the caller holds, as they are by now.
HeldEntries ==
    IF held.kind = "export"
    THEN <<[i \in DOMAIN held.active |-> Deref(held.active[i])],
           [i \in DOMAIN held.archived |-> Deref(held.archived[i])]>>
    ELSE <<>>

\* C20 as stated: ExportState exposes no internal mutable structure: a write
\* of the caller to an entry ExportState returned changes nothing of what
\* VisibleRuns returns, and no later Upsert or Archive changes an entry of a
\* snapshot returned earlier.
C20_EntriesNotExposed ==
    [][ /\ ret'.op = "write entry" =>
              /\ VisibleRuns(FALSE)' = VisibleRuns(FALSE)
              /\ VisibleRuns(TRUE)' = VisibleRuns(TRUE)
        /\ ret'.op \in {"Upsert", "Archive"} => HeldEntries' = HeldEntries
      ]_vars

\* C20, amended: the entries ExportState returns are the tracker's own
\* entries, shared by reference: a write of the caller to a returned entry
\* shows in what VisibleRuns returns from then on (the entry of that run now
\* has the value written), and a later Archive of a run shows in the entry of
\* that run in a snapshot returned earlier (its ArchivedAt is the instant of
\* the Archive).
C20_EntriesAreShared ==
    [][ /\ ret'.op = "write entry" =>
              \E showArchived \in BOOLEAN : \E i \in DOMAIN VisibleRuns(showArchived) :
                  /\ VisibleRuns(showArchived)[i].Run.ID = ret'.id
                  /\ VisibleRuns(showArchived)[i].AddedAt # ZeroTime
                  /\ VisibleRuns(showArchived)'[i] =
                        [VisibleRuns(showArchived)[i] EXCEPT !.AddedAt = ZeroTime]
        /\ (ret'.op = "Archive" /\ ret'.ok /\ held.kind = "export") =>
              \A list \in {"active", "archived"} : \A i \in DOMAIN held[list] :
                  Deref(held[list][i]).Run.ID = ret'.id =>
                      /\ HeldEntries'[IF list = "active" THEN 1 ELSE 2][i].Run.ID = ret'.id
                      /\ HeldEntries'[IF list = "active" THEN 1 ELSE 2][i].ArchivedAt = now
      ]_vars

\* C20 witness: the caller has just written AddedAt of an entry of the
\* snapshot it holds, and VisibleRuns(false) returns that run with the
\* AddedAt written.
C20_Witness ==
    /\ ret.op = "write entry"
    /\ Len(VisibleRuns(FALSE)) >= 1
    /\ VisibleRuns(FALSE)[1].Run.ID = ret.id
    /\ VisibleRuns(FALSE)[1].AddedAt = ZeroTime
    /\ held.writes = 1

\* The map from run ID to entry that holds exactly the entries of a list, the
\* last one of each run ID.
HoldsExactly(m, entries) ==
    /\ DOMAIN m = {entries[i].Run.ID : i \in DOMAIN entries}
    /\ \A id \in DOMAIN m :
          \E i \in DOMAIN entries :
              /\ entries[i] = m[id]
              /\ entries[i].Run.ID = id
              /\ \A j \in DOMAIN entries : j > i => entries[j].Run.ID # id

\* C21: ImportState replaces the whole state: after the call each map holds
\* exactly the entries supplied for it, keyed by run ID, and each order
\* sequence is the one supplied; no entry and no order ID of the state before
\* the call is left unless it was supplied.
C21_ImportReplaces ==
    [][ ret'.op = "ImportState" =>
          /\ HoldsExactly(active', ret'.args.active)
          /\ HoldsExactly(archived', ret'.args.archived)
          /\ activeOrder' = ret'.args.activeOrder
          /\ archivedOrder' = ret'.args.archivedOrder
          /\ \A id \in Tracked' : Entry(id)' \in
                Range(ret'.args.active) \cup Range(ret'.args.archived)
      ]_vars

\* C21 witness: ImportState was given no active entry and no archived order,
\* one archived entry and an active order of two IDs; the maps and the orders
\* are what was given, whatever the tracker held before.
C21_Witness ==
    /\ ret.op = "ImportState"
    /\ ret.args.active = <<>>
    /\ ret.args.archivedOrder = <<>>
    /\ Len(ret.args.archived) = 1
    /\ Len(ret.args.activeOrder) = 2
    /\ active = EmptyMap
    /\ DOMAIN archived = {ret.args.archived[1].Run.ID}
    /\ activeOrder = ret.args.activeOrder
    /\ archivedOrder = <<>>

\* The step is a call of LoadTracker: it returned without a call of the
\* tracker, or it called ImportState (in SpecDisk nothing else does).
LoadStep == ret'.op \in {"LoadTracker", "ImportState"}

\* The file is a JSON document of the supported version.
Supported(file) == file.kind = "json" /\ file.Version = stateVersion

\* C22: LoadTracker calls ImportState only for a readable JSON document of the
\* supported version; in every other case it calls nothing of the tracker, so
\* both catalogs and both orders are as before, and when the path or the read
\* failed, the file is no JSON or its version is another one, it returns an
\* error.
C22_LoadFailsWhole ==
    [][ LoadStep =>
          /\ ret'.op = "ImportState" => Supported(disk.state)
          /\ ret'.op = "LoadTracker" =>
                /\ UNCHANGED <<active, archived, activeOrder, archivedOrder>>
                /\ (ret'.fault # "none" \/ disk.state = NotJSON
                        \/ (disk.state.kind = "json" /\ ~Supported(disk.state)))
                     => ret'.err # "nil"
      ]_vars

\* LoadTracker has refused a document of another version while the tracker
\* held a run.
C22_Witness ==
    /\ ret.op = "LoadTracker"
    /\ ret.err = "version"
    /\ disk.state.kind = "json"
    /\ disk.state.Version = stateVersion + 1
    /\ disk.state.ActiveOrder = <<1>>
    /\ activeOrder = <<2>>
    /\ DOMAIN active = {2}

\* C24: LoadTracker with no file at state.json (and nothing else failing)
\* returns nil and calls nothing of the tracker: the tracker is as before.
C24_MissingFileIsNoError ==
    [][ (LoadStep /\ disk.state = NoFile
            /\ (ret'.op = "LoadTracker" => ret'.fault = "none")) =>
          /\ ret'.op = "LoadTracker"
          /\ ret'.err = "nil"
          /\ UNCHANGED <<active, archived, activeOrder, archivedOrder>>
      ]_vars

\* LoadTracker has returned nil for a missing file, on a fresh tracker.
C24_Witness ==
    /\ ret.op = "LoadTracker"
    /\ ret.fault = "none"
    /\ ret.err = "nil"
    /\ disk.state = NoFile
    /\ active = EmptyMap
    /\ archived = EmptyMap
    /\ activeOrder = <<>>
    /\ archivedOrder = <<>>

\* C25: a step of SaveTracker, failed or not, and the death of the process at
\* any step leave state.json as it was, or put the whole document SaveTracker
\* marshalled in its place; it is never a part of a document.
C25_SaveIsAtomic ==
    [][ ret'.op \in {"SaveTracker", "restart"} =>
          \/ disk'.state = disk.state
          \/ /\ saving.pc = "rename"
             /\ Supported(saving.data)
             /\ disk'.state = saving.data
      ]_vars

\* The process has died after SaveTracker had begun to write state.json.tmp:
\* the document saved before is still at state.json.
C25_Witness ==
    /\ ret.op = "restart"
    /\ disk.tmp = NotJSON
    /\ saved.known
    /\ Supported(disk.state)
    /\ disk.state.ActiveOrder = <<2, 1>>

\* C26: LoadTracker of the file a SaveTracker call put in place, into whatever
\* tracker (a fresh one after a restart included), makes both catalogs and both
\* orders what they were when SaveTracker was called, every field of every
\* entry included.
C26_SaveLoadRoundTrip ==
    [][ (ret'.op = "ImportState" /\ saved.known) =>
          /\ active' = saved.active
          /\ archived' = saved.archived
          /\ activeOrder' = saved.activeOrder
          /\ archivedOrder' = saved.archivedOrder
      ]_vars

\* A saved tracker of one active and one archived run has been loaded.
C26_Witness ==
    /\ ret.op = "ImportState"
    /\ saved.known
    /\ activeOrder = <<2>>
    /\ archivedOrder = <<1>>
    /\ DOMAIN active = {2}
    /\ DOMAIN archived = {1}
    /\ archived[1].ArchivedAt # ZeroTime
    /\ active[2].AddedAt # ZeroTime

\* The tracker LoadTracker makes of a JSON document.
Loads(file) ==
    [active |-> importMap(EmptyMap, convertFromData(file.Active)),
     archived |-> importMap(EmptyMap, convertFromData(file.Archived)),
     activeOrder |-> file.ActiveOrder, archivedOrder |-> file.ArchivedOrder]

\* The document at state.json is the tracker in memory.
InSync == Supported(disk.state) /\ Loads(disk.state) = TrackerValue

\* What a tracker holds apart from the run records and sources: the runs of
\* each catalog with addedAt and archivedAt, and both orders.
Shape(t) ==
    [active |-> [id \in DOMAIN t.active |->
                    <<t.active[id].AddedAt, t.active[id].ArchivedAt>>],
     archived |-> [id \in DOMAIN t.archived |->
                    <<t.archived[id].AddedAt, t.archived[id].ArchivedAt>>],
     activeOrder |-> t.activeOrder, archivedOrder |-> t.archivedOrder]

\* C23: when LoadTracker at the start of the application returns an error for
\* a file that is no JSON document or is of another version, the application
\* does not come up, or it comes up showing an error status.
C23_LoadFailureSurfaced ==
    [][ (app.phase = "down" /\ ret'.op = "LoadTracker"
            /\ ret'.err \in {"unmarshal", "version"}) =>
          \/ app'.phase = "down"
          \/ app'.status.text # "" /\ app'.status.kind = statusError
      ]_vars

\* C27, as claimed: a message or key that changes the tracker, with no file
\* operation failing, leaves at state.json the tracker as it is in memory.
C27_SavedAfterEveryChange ==
    [][ (ret'.op = "Update" /\ TrackerValue' # TrackerValue /\ app'.faults = app.faults) =>
          InSync'
      ]_vars

\* C27, amended: a message or key that changes the catalog a run is in, an
\* order, an addedAt or an archivedAt, with no file operation failing, leaves
\* at state.json a document with the catalogs, orders, addedAt and archivedAt
\* of the tracker in memory; a handler that calls SaveTracker not at all has
\* changed at most run records and sources.
C27_SavedAfterMembershipChange ==
    [][ (ret'.op = "Update" /\ app'.faults = app.faults) =>
          /\ Shape(TrackerValue') # Shape(TrackerValue) =>
                /\ ret'.saves > 0
                /\ Supported(disk'.state)
                /\ Shape(Loads(disk'.state)) = Shape(TrackerValue')
          /\ ret'.saves = 0 => Shape(TrackerValue') = Shape(TrackerValue)
      ]_vars

\* The run has been archived with "a", and state.json holds the tracker.
C27_Witness ==
    /\ ret.op = "Update"
    /\ ret.key = "a"
    /\ ret.saves = 1
    /\ app.faults = 0
    /\ DOMAIN archived = {1}
    /\ archivedOrder = <<1>>
    /\ InSync

\* C28: the quit key calls SaveTracker once, on the tracker as it is, and
\* sets the program to quit; with no file operation failing the document at
\* state.json is then the tracker in memory.
C28_QuitSaves ==
    [][ (ret'.op = "Update" /\ ret'.key = "q") =>
          /\ app'.phase = "quit"
          /\ ret'.saves = 1
          /\ TrackerValue' = TrackerValue
          /\ app'.faults = app.faults => InSync'
      ]_vars

\* The program has quit with a run whose status had changed since it was
\* added; the document holds it.
C28_Witness ==
    /\ ret.op = "Update"
    /\ ret.key = "q"
    /\ app.phase = "quit"
    /\ app.faults = 0
    /\ DOMAIN active = {1}
    /\ active[1].Run.Status = RunStatusSuccess
    /\ InSync

\* C29: a fetch whose client call returned an error is answered by a
\* fetchErrMsg, and handling it calls Upsert not at all and leaves the tracker
\* as it was; whenever Upsert is called, it is for a run of a fetchResultMsg or
\* refreshResultMsg, and a fetchResultMsg comes of no failed fetch.
C29_FailedFetchUpsertsNothing ==
    [][ ret'.op = "Update" =>
          /\ (ret'.failed /\ ret'.type \in {"fetchErrMsg", "fetchResultMsg"}) =>
                /\ ret'.type = "fetchErrMsg"
                /\ ret'.upserts = <<>>
                /\ TrackerValue' = TrackerValue
          /\ ret'.type = "fetchErrMsg" => ret'.upserts = <<>> /\ TrackerValue' = TrackerValue
          /\ ret'.upserts # <<>> =>
                /\ ret'.type \in {"fetchResultMsg", "refreshResultMsg"}
                /\ Range(ret'.upserts) \subseteq ret'.given
      ]_vars

\* A fetch has failed while the tracker held a run: the run is there, the
\* error is shown.
C29_Witness ==
    /\ ret.op = "Update"
    /\ ret.type = "fetchErrMsg"
    /\ ret.failed
    /\ ret.upserts = <<>>
    /\ DOMAIN active = {1}
    /\ app.status = [text |-> "error", kind |-> statusError]

\* C30: after a fetchErrMsg or a refreshResultMsg with Err set has been
\* handled, the status line shows the error, as an error, and the program runs.
C30_FailureShownAsError ==
    [][ (ret'.op = "Update" /\ ret'.failed) =>
          /\ app'.status = [text |-> "error", kind |-> statusError]
          /\ app'.phase = "up"
      ]_vars


\* The IDs of the runs of a refreshResultMsg, in order.
RefreshedIDs(msg) == [i \in DOMAIN msg.Runs |-> msg.Runs[i].ID]

\* C31: tracker operations happen only in the event loop's Update, one handler
\* at a time; the goroutine of a command changes neither the tracker nor the
\* Model nor the files, it leaves a message, and a refresh asks for the runs
\* that were active when it was issued, whatever the tracker holds when it
\* runs: with no call failing its message carries exactly those runs.
C31_TrackerOpsAreSerial ==
    [][ /\ TrackerValue' # TrackerValue => ret'.op = "Update"
        /\ ret'.op = "Cmd" =>
              /\ TrackerValue' = TrackerValue /\ app' = app /\ disk' = disk
              /\ Len(inflight') = Len(inflight)
              /\ \A i \in DOMAIN inflight :
                    \/ inflight'[i] = inflight[i]
                    \/ /\ inflight[i].kind \in {"fetch", "refresh"}
                       /\ inflight'[i].kind = "msg"
                       /\ inflight'[i].cmd = inflight[i]
                       /\ inflight[i].kind = "refresh" =>
                             /\ Range(RefreshedIDs(inflight'[i].msg)) \subseteq Range(inflight[i].ids)
                             /\ inflight'[i].msg.Err = "" =>
                                   RefreshedIDs(inflight'[i].msg) = inflight[i].ids
      ]_vars

\* A refresh was issued while run 1 was active, the run has been archived
\* since, and the command has now run: its message carries run 1.
C31_Witness ==
    /\ ret.op = "Cmd"
    /\ ret.kind = "refresh"
    /\ DOMAIN active = {}
    /\ DOMAIN archived = {1}
    /\ \E i \in DOMAIN inflight :
          /\ inflight[i].kind = "msg"
          /\ inflight[i].msg.type = "refreshResultMsg"
          /\ RefreshedIDs(inflight[i].msg) = <<1>>


\* The status stored for the tracked run id.
StatusOf(t, id) == IF id \in DOMAIN t.active THEN t.active[id].Run.Status
                   ELSE t.archived[id].Run.Status

C33_RefreshKeepsArchived ==
    [][ (ret'.op = "Update" /\ ret'.type = "refreshResultMsg") =>
          DOMAIN archived \subseteq DOMAIN archived'
      ]_vars


\* C34: the answer of a command is not applied to a run after the answer of
\* a command issued later has been: a handler calls Upsert for no run that
\* is passed for the command it answers.
C34_AppliedInIssueOrder ==
    [][ ret'.op = "Update" => Range(ret'.upserts) \cap
                                 (IF ret'.cmd = NoCmd THEN {} ELSE ret'.cmd.passed) = {}
      ]_vars


\* C35: once Init has run, exactly one refresh tick is scheduled and not yet
\* handled, in every state of the running program; handling a tick leaves
\* one scheduled and no other message schedules or drops one.
C35_OneTickPending == app.phase = "up" => app.ticks = 1

\* A tick has been handled while no run was active and nothing was in
\* flight: the next tick is scheduled.
C35_Witness ==
    /\ ret.op = "Update"
    /\ ret.type = "refreshTickMsg"
    /\ DOMAIN active = {}
    /\ DOMAIN archived = {1}
    /\ inflight = <<>>
    /\ app.ticks = 1


\* C36: while the program runs, refreshing is true exactly if a periodic
\* refresh command is in flight.
C36_RefreshingMeansInFlight ==
    app.phase = "up" =>
        (app.refreshing <=> \E i \in DOMAIN inflight :
                                inflight[i].kind = "refresh" /\ inflight[i].auto)


\* C37: a state file that LoadTracker refused at the start, for being no JSON
\* document or of another version, is left as it is by every handler of that
\* session.  (While the program runs only its own saves, which write
\* documents of the supported version, change the file: such a file at
\* state.json is the one New met, and with no fault of the file system so
\* far LoadTracker has read it and returned its error.)
C37_RefusedFileKept ==
    [][ (/\ app.phase = "up"
         /\ app.faults = 0
         /\ disk.state # NoFile
         /\ ~Supported(disk.state)
         /\ ret'.op = "Update") => disk'.state = disk.state
      ]_vars


\* The number of runs in the list shown.
Shown == Len(visibleRunsOf(TrackerValue, app.showArchived))

\* C38: while the program runs, selectedIndex is a row of the list shown, and
\* 0 when that list is empty.
C38_SelectionInList ==
    app.phase = "up" =>
        IF Shown = 0 THEN app.selectedIndex = 0
        ELSE 0 <= app.selectedIndex /\ app.selectedIndex < Shown

\* C39: while the program runs, the terminal's size is known and the list
\* shown is not empty, the row selected is one of the dataRows rows drawn from scrollOffset on, and
\* scrollOffset is at least 0 and at most the list's length less dataRows,
\* or 0 if that is negative.
C39_SelectionInWindow ==
    (app.phase = "up" /\ app.listArea # NoArea /\ Shown > 0) =>
        /\ app.scrollOffset <= app.selectedIndex
        /\ app.selectedIndex < app.scrollOffset + dataRows(Machine)
        /\ 0 <= app.scrollOffset
        /\ app.scrollOffset <= IF Shown - dataRows(Machine) < 0 THEN 0
                               ELSE Shown - dataRows(Machine)


\* C40: with the focus on the input, a key other than tab, shift+tab, esc,
\* enter, up, down, ctrl+c and ctrl+d does not end the program and leaves the
\* tracker, the selection, the list shown and the bell as they are.
C40_InputTakesOtherKeys ==
    [][ (/\ ret'.op = "Update"
         /\ ret'.type = "KeyMsg"
         /\ app.focus = focusInput
         /\ ret'.key \notin {"tab", "esc", "enter", "up", "down", "ctrl+d"}) =>
          /\ app'.phase = "up"
          /\ TrackerValue' = TrackerValue
          /\ app'.selectedIndex = app.selectedIndex
          /\ app'.showArchived = app.showArchived
          /\ app'.bellEnabled = app.bellEnabled
      ]_vars

====
